---- MODULE Spec2Model ----
(***************************************************************************)
(* A model of bnferris: the line lexer (src/src/lexer.rs), the recursive   *)
(* descent parser and Display (src/src/parser.rs), and the table builder,  *)
(* validators and generator of main (src/src/main.rs).                     *)
(*                                                                         *)
(* Characters are Unicode code points (naturals), a line is a sequence of  *)
(* code points (Lexer.content : Vec<char>), columns are zero-based as in   *)
(* the source, so content[col] of the source is content[col + 1] here.     *)
(***************************************************************************)
EXTENDS Integers, Sequences, FiniteSets, TLC

VARIABLES
    \* main(): the table-building pass and what follows it
    pc,             \* position in main()
    grammar,        \* HashMap<String, Rule>
    parsing_error,  \* the failure flag of the pass over the file
    row,            \* number of lines consumed so far
    line,           \* the line most recently processed (input, kept for inspection)
    outcome,        \* what the most recent line did (the diagnostics it printed)
    merged,         \* per symbol: the bodies folded into its rule so far (history)
    args,           \* BNFuzzerArgs
    stderr,         \* the diagnostics printed after the table-building pass
    stdout,         \* the lines printed on standard output
    visited,        \* walk_symbols_in_expr: the visited map (its key set)
    agenda,         \* walk_symbols_in_expr: expressions still to walk, depth first
    gen,            \* generate_random_message: the call stack, innermost call last
    genRet,         \* the string a call has just returned to its caller, if any
    genResult,      \* the outcome of the last finished generation call
    generated,      \* messages generated so far (loop counter of main)
    exit,           \* process state: "run", "ok", "fail" (exit code 1), "panic"
    \* a lexer driven directly through peek/next
    lx, lexOp, lexRes,
    \* parse / render / parse again
    rtStage, rtInput, rtFirst, rtText, rtSecond

frontVars == <<grammar, parsing_error, row, line, outcome, merged>>
backVars == <<args, stderr, stdout, visited, agenda, gen, genRet, genResult, generated>>
mainVars == <<pc, exit, frontVars, backVars>>
lexVars == <<lx, lexOp, lexRes>>
rtVars == <<rtStage, rtInput, rtFirst, rtText, rtSecond>>
vars == <<mainVars, lexVars, rtVars>>

----------------------------------------------------------------------------
(* Characters *)

\* The printable ASCII characters, code points 32 .. 126, in order (the grave
\* accent, code point 96, is left out: its place holds the empty string).
Ascii ==
    <<" ", "!", "\"", "#", "$", "%", "&", "'", "(", ")", "*", "+", ",", "-", ".", "/",
      "0", "1", "2", "3", "4", "5", "6", "7", "8", "9", ":", ";", "<", "=", ">", "?",
      "@", "A", "B", "C", "D", "E", "F", "G", "H", "I", "J", "K", "L", "M", "N", "O",
      "P", "Q", "R", "S", "T", "U", "V", "W", "X", "Y", "Z", "[", "\\", "]", "^", "_",
      "",  "a", "b", "c", "d", "e", "f", "g", "h", "i", "j", "k", "l", "m", "n", "o",
      "p", "q", "r", "s", "t", "u", "v", "w", "x", "y", "z", "{", "|", "}", "~">>

\* The code point of a printable ASCII character given as a one-character string.
Ord(c) == 31 + CHOOSE i \in 1..Len(Ascii) : Ascii[i] = c

\* A text given character by character, as code points.
Chars(s) == [i \in 1..Len(s) |-> Ord(s[i])]

\* char::is_whitespace, char::is_numeric, char::is_alphabetic, char::is_control on the
\* code points the inputs below are written in: ASCII, U+D7FF and U+E000 (the last two
\* are in none of the classes).
is_whitespace(ch) == ch \in (9..13) \cup {32}
is_numeric(ch) == ch \in 48..57
is_alphabetic(ch) == ch \in (65..90) \cup (97..122)
is_alphanumeric(ch) == is_alphabetic(ch) \/ is_numeric(ch)
is_control(ch) == ch \in (0..31) \cup (127..159)

----------------------------------------------------------------------------
(* lexer.rs *)

\* Characters are written by code point below:
\*   32 space  34 "  36 $  37 %  39 '  40 (  41 )  42 *  45 -  46 .  47 /
\*   48..57 0..9  58 :  59 ;  60 <  61 =  62 >  65..90 A..Z  91 [  92 \  93 ]
\*   95 _  97..122 a..z (110 n, 114 r, 120 x)  123 {  124 |  125 }

Loc(r, c) == [row |-> r, col |-> c]

DiagErr(l, m) == [loc |-> l, message |-> m]

\* Option<T>: None is the empty sequence, Some(v) the one-element sequence.
None == <<>>
Some(v) == <<v>>

Token(k, t, n, l) == [kind |-> k, text |-> t, number |-> n, loc |-> l]

\* Result<T, DiagErr> of a &mut self method: the value or error, and the lexer after.
Ok(v, l) == [ok |-> TRUE, val |-> v, lx |-> l]
Err(e, l) == [ok |-> FALSE, err |-> e, lx |-> l]

LITERAL_TOKENS ==
    << [text |-> <<58, 58, 61>>, kind |-> "Definition"],
       [text |-> <<61, 47>>, kind |-> "IncAlternative"],
       [text |-> <<61>>, kind |-> "Definition"],
       [text |-> <<124>>, kind |-> "Alternation"],
       [text |-> <<47>>, kind |-> "Alternation"],
       [text |-> <<91>>, kind |-> "BracketOpen"],
       [text |-> <<93>>, kind |-> "BracketClose"],
       [text |-> <<123>>, kind |-> "CurlyOpen"],
       [text |-> <<125>>, kind |-> "CurlyClose"],
       [text |-> <<40>>, kind |-> "ParenOpen"],
       [text |-> <<41>>, kind |-> "ParenClose"],
       [text |-> <<46, 46, 46>>, kind |-> "Ellipsis"],
       [text |-> <<42>>, kind |-> "Asterisk"] >>

LexerNew(content, r) == [content |-> content, row |-> r, col |-> 0, peek_buf |-> None]

\* self.content[i]
At(l, i) == l.content[i + 1]

AtEnd(l) == l.col >= Len(l.content)

RECURSIVE TrimCol(_, _)
TrimCol(l, c) ==
    IF c < Len(l.content) /\ is_whitespace(At(l, c)) THEN TrimCol(l, c + 1) ELSE c

trim(l) == [l EXCEPT !.col = TrimCol(l, l.col)]

has_prefix(l, prefix) ==
    IF l.col + Len(prefix) > Len(l.content)
    THEN FALSE
    ELSE \A i \in 1..Len(prefix) : At(l, l.col + i - 1) = prefix[i]

loc(l) == Loc(l.row, l.col)

IsHexDigit(x) == x \in (48..57) \cup (97..102) \cup (65..70)

HexDigitValue(x) ==
    IF x \in 48..57 THEN x - 48
    ELSE IF x \in 97..102 THEN x - 97 + 10
    ELSE x - 65 + 10

\* The loop of chop_hex_byte_value from iteration i with the value accumulated so far.
RECURSIVE HexLoop(_, _, _)
HexLoop(l, i, result) ==
    IF i = 2 THEN Ok(result, l)
    ELSE IF AtEnd(l)
    THEN Err(DiagErr(loc(l), "Unfinished hexadecimal value of a byte"), l)
    ELSE IF ~IsHexDigit(At(l, l.col))
    THEN Err(DiagErr(loc(l), "Expected hex digit"), l)
    ELSE HexLoop([l EXCEPT !.col = l.col + 1], i + 1,
                 result * 16 + HexDigitValue(At(l, l.col)))

chop_hex_byte_value(l) == HexLoop(l, 0, 0)

\* EscapeValue accepting either quote character as an escape, whatever the delimiter.
EscapeValueAnyQuote(c, quote) ==
    IF c = 48 THEN Some(0)
    ELSE IF c = 110 THEN Some(10)
    ELSE IF c = 114 THEN Some(13)
    ELSE IF c = 92 THEN Some(92)
    ELSE IF c \in {34, 39} THEN Some(c)
    ELSE None

\* What an escape (the character after the backslash) other than \x pushes;
\* None for an unknown escape.
EscapeValue(c, quote) ==
    IF c = 48 THEN Some(0)
    ELSE IF c = 110 THEN Some(10)
    ELSE IF c = 114 THEN Some(13)
    ELSE IF c = 92 THEN Some(92)
    ELSE IF c = quote THEN Some(quote)
    ELSE None

\* The while loop of chop_str_lit and the closing-quote check after it.
RECURSIVE StrLoop(_, _, _, _)
StrLoop(l, quote, begin, lit) ==
    IF AtEnd(l)
    THEN Err(DiagErr(Loc(l.row, begin), "Expected quote at the end of this string literal"), l)
    ELSE IF At(l, l.col) = 92
    THEN LET l1 == [l EXCEPT !.col = l.col + 1]
         IN  IF AtEnd(l1)
             THEN Err(DiagErr(loc(l1), "Unfinished escape sequence"), l1)
             ELSE IF At(l1, l1.col) = 120
             THEN LET AfterHex(h) ==
                          IF h.ok
                          THEN StrLoop(h.lx, quote, begin, Append(lit, h.val))
                          ELSE h
                  IN  AfterHex(chop_hex_byte_value([l1 EXCEPT !.col = l1.col + 1]))
             ELSE LET v == EscapeValue(At(l1, l1.col), quote)
                  IN  IF v = None
                      THEN Err(DiagErr(loc(l1), "Unknown escape sequence"), l1)
                      ELSE StrLoop([l1 EXCEPT !.col = l1.col + 1], quote, begin,
                                   Append(lit, v[1]))
    ELSE IF At(l, l.col) = quote
    THEN Ok(lit, [l EXCEPT !.col = l.col + 1])
    ELSE StrLoop([l EXCEPT !.col = l.col + 1], quote, begin, Append(lit, At(l, l.col)))

chop_str_lit(l) ==
    IF AtEnd(l)
    THEN Ok(<<>>, l)
    ELSE StrLoop([l EXCEPT !.col = l.col + 1], At(l, l.col), l.col + 1, <<>>)

is_symbol_start(ch) == is_alphabetic(ch) \/ ch = 45 \/ ch = 95

is_symbol(ch) == is_alphanumeric(ch) \/ ch = 45 \/ ch = 95

\* The column after the run of characters satisfying is_numeric / is_symbol from c.
RECURSIVE NumericEnd(_, _)
NumericEnd(l, c) ==
    IF c < Len(l.content) /\ is_numeric(At(l, c)) THEN NumericEnd(l, c + 1) ELSE c

RECURSIVE SymbolEnd(_, _)
SymbolEnd(l, c) ==
    IF c < Len(l.content) /\ is_symbol(At(l, c)) THEN SymbolEnd(l, c + 1) ELSE c

\* number = number * 10 + digit over content[begin..end). The digit runs of the inputs
\* below are at most two digits long, far from the width of u32.
RECURSIVE DecimalValue(_, _, _, _)
DecimalValue(l, c, end, number) ==
    IF c >= end THEN number
    ELSE DecimalValue(l, c + 1, end, number * 10 + (At(l, c) - 48))

\* content[begin..end)
Slice(l, begin, end) == SubSeq(l.content, begin + 1, end)

\* The angle-bracket symbol loop: the column after it and whether it hit a bad character.
RECURSIVE AngleEnd(_, _)
AngleEnd(l, c) ==
    IF c < Len(l.content) /\ At(l, c) # 62
    THEN IF ~is_symbol(At(l, c)) THEN [col |-> c, bad |-> TRUE] ELSE AngleEnd(l, c + 1)
    ELSE [col |-> c, bad |-> FALSE]

\* The first entry of LITERAL_TOKENS from index i on that is a prefix here, or 0.
RECURSIVE LiteralMatch(_, _)
LiteralMatch(l, i) ==
    IF i > Len(LITERAL_TOKENS) THEN 0
    ELSE IF has_prefix(l, LITERAL_TOKENS[i].text) THEN i
    ELSE LiteralMatch(l, i + 1)

\* The %x arm of chop_token.
ValueToken(l0, token_loc) ==
    LET Second(v1, v2) ==
            IF ~v2.ok THEN v2
            ELSE Ok(Token("ValueRange", <<v1.val, v2.val>>, None, token_loc), v2.lx)
        First(v1) ==
            IF ~v1.ok THEN v1
            ELSE IF has_prefix(v1.lx, <<45>>)
            THEN Second(v1, chop_hex_byte_value([v1.lx EXCEPT !.col = v1.lx.col + 1]))
            ELSE Ok(Token("String", <<v1.val>>, None, token_loc), v1.lx)
    IN  First(chop_hex_byte_value([l0 EXCEPT !.col = l0.col + 2]))

\* chop_token from `let token_loc = self.loc()` on: l is the lexer after trim and
\* the comment check.
ScanToken(l, token_loc) ==
    LET Lit(s) == IF ~s.ok THEN s
                  ELSE Ok(Token("String", s.val, None, token_loc), s.lx)
        Number(end) ==
            Ok(Token("Number", Slice(l, l.col, end),
                     Some(DecimalValue(l, l.col, end, 0)), token_loc),
               [l EXCEPT !.col = end])
        Symbol(end) ==
            Ok(Token("Symbol", Slice(l, l.col, end), None, token_loc),
               [l EXCEPT !.col = end])
        Angle(begin, a) ==
            IF a.bad
            THEN Err(DiagErr(Loc(l.row, a.col), "Unexpected character in symbol name"),
                     [l EXCEPT !.col = a.col])
            ELSE IF a.col >= Len(l.content)
            THEN Err(DiagErr(Loc(l.row, a.col), "Expected '>' at the end of the symbol name"),
                     [l EXCEPT !.col = a.col])
            ELSE Ok(Token("Symbol", Slice(l, begin, a.col), None, token_loc),
                    [l EXCEPT !.col = a.col + 1])
        Literal(i) ==
            IF i # 0
            THEN Ok(Token(LITERAL_TOKENS[i].kind, LITERAL_TOKENS[i].text, None, token_loc),
                    [l EXCEPT !.col = l.col + Len(LITERAL_TOKENS[i].text)])
            ELSE Err(DiagErr(token_loc, "Invalid token"), l)
    IN  IF AtEnd(l)
        THEN Ok(Token("Eol", <<>>, None, token_loc), l)
        ELSE IF is_numeric(At(l, l.col)) THEN Number(NumericEnd(l, l.col))
        ELSE IF is_symbol_start(At(l, l.col)) THEN Symbol(SymbolEnd(l, l.col))
        ELSE IF At(l, l.col) = 60 THEN Angle(l.col + 1, AngleEnd(l, l.col + 1))
        ELSE IF At(l, l.col) = 34 \/ At(l, l.col) = 39 THEN Lit(chop_str_lit(l))
        ELSE IF has_prefix(l, <<37, 120>>) THEN ValueToken(l, token_loc)
        ELSE Literal(LiteralMatch(l, 1))

\* The comment check of chop_token, lines 255 to 257, on the trimmed lexer.
SkipComment(t) ==
    IF has_prefix(t, <<47, 47>>) \/ has_prefix(t, <<59>>)
    THEN [t EXCEPT !.col = Len(t.content)]
    ELSE t

chop_token(lexer) ==
    LET Scan(l) == ScanToken(l, loc(l))
    IN  Scan(SkipComment(trim(lexer)))

peek(lexer) ==
    IF lexer.peek_buf # None
    THEN Ok(lexer.peek_buf[1], lexer)
    ELSE LET Buffered(r) == IF ~r.ok THEN r
                            ELSE Ok(r.val, [r.lx EXCEPT !.peek_buf = Some(r.val)])
         IN  Buffered(chop_token(lexer))

next(lexer) ==
    IF lexer.peek_buf # None
    THEN Ok(lexer.peek_buf[1], [lexer EXCEPT !.peek_buf = None])
    ELSE chop_token(lexer)

----------------------------------------------------------------------------
(* parser.rs *)

SymbolExpr(l, name) == [kind |-> "Symbol", loc |-> l, name |-> name]
StringExpr(l, text) == [kind |-> "String", loc |-> l, text |-> text]
AlternationExpr(l, variants) == [kind |-> "Alternation", loc |-> l, variants |-> variants]
ConcatExpr(l, elements) == [kind |-> "Concat", loc |-> l, elements |-> elements]
RepetitionExpr(l, body, lower, upper) ==
    [kind |-> "Repetition", loc |-> l, body |-> body, lower |-> lower, upper |-> upper]
RangeExpr(l, lower, upper) == [kind |-> "Range", loc |-> l, lower |-> lower, upper |-> upper]

get_loc(expr) == expr.loc

MAX_UNSPECIFIED_UPPER_REPETITION_BOUND == 20

expect_token(lexer, kind) ==
    LET Checked(t) ==
            IF ~t.ok THEN t
            ELSE IF t.val.kind # kind
            THEN Err(DiagErr(t.val.loc, "Expected another token kind"), t.lx)
            ELSE t
    IN  Checked(next(lexer))

is_primary_start(kind) ==
    kind \in {"Symbol", "String", "BracketOpen", "CurlyOpen", "ParenOpen", "Number",
              "Asterisk", "ValueRange"}

\* The parser's functions call one another, and themselves, through Call, which
\* dispatches on the name of the function called; elements is the vector a loop has
\* built so far.
RECURSIVE Call(_, _, _)

\* lexer.next()? right after a successful peek: it takes the buffered token.
TakePeeked(lexer) == [lexer EXCEPT !.peek_buf = None]

\* parse_expr, then the closing token of the group.
Grouped(lexer, close) ==
    LET Closed(e, c) == IF ~c.ok THEN c ELSE Ok(e.val, c.lx)
        Body(e) == IF ~e.ok THEN e ELSE Closed(e, expect_token(e.lx, close))
    IN  Body(Call("parse_expr", lexer, <<>>))

\* let body = parse_primary_expr(lexer)?; Ok(Expr::Repetition { .. })
Repeated(lexer, l, lower, upper) ==
    LET Body(b) == IF ~b.ok THEN b ELSE Ok(RepetitionExpr(l, b.val, lower, upper), b.lx)
    IN  Body(Call("parse_primary_expr", lexer, <<>>))

\* The arm for a String token: a literal, or the lower bound of "a"..."z".
StringPrimary(token, lexer) ==
    LET Upper(upper) ==
            IF ~upper.ok THEN upper
            ELSE IF Len(upper.val.text) # 1
            THEN Err(DiagErr(upper.val.loc,
                             "The upper boundary of the range is expected to be 1 symbol string"),
                     upper.lx)
            ELSE Ok(RangeExpr(token.loc, token.text[1], upper.val.text[1]), upper.lx)
        Peeked(p) ==
            IF ~p.ok THEN p
            ELSE IF p.val.kind # "Ellipsis"
            THEN Ok(StringExpr(token.loc, token.text), p.lx)
            ELSE IF Len(token.text) # 1
            THEN Err(DiagErr(token.loc,
                             "The lower boundary of the range is expected to be 1 symbol string"),
                     p.lx)
            ELSE Upper(expect_token(TakePeeked(p.lx), "String"))
    IN  Peeked(peek(lexer))

AfterAsteriskKeepingNumber(lexer, l, lower) ==
    LET Peeked(upper) ==
            IF ~upper.ok THEN upper
            ELSE Repeated(upper.lx, l, lower, MAX_UNSPECIFIED_UPPER_REPETITION_BOUND)
    IN  Peeked(peek(lexer))

\* After `*` (lower already known): an optional Number, then the body.
AfterAsterisk(lexer, l, lower) ==
    LET Peeked(upper) ==
            IF ~upper.ok THEN upper
            ELSE IF upper.val.kind # "Number"
            THEN Repeated(upper.lx, l, lower, MAX_UNSPECIFIED_UPPER_REPETITION_BOUND)
            ELSE Repeated(TakePeeked(upper.lx), l, lower, upper.val.number[1])
    IN  Peeked(peek(lexer))

\* The arm for a Number token.
NumberPrimary(token, lexer) ==
    LET Peeked(p) ==
            IF ~p.ok THEN p
            ELSE IF p.val.kind = "Asterisk"
            THEN AfterAsterisk(TakePeeked(p.lx), token.loc, token.number[1])
            ELSE Repeated(p.lx, token.loc, token.number[1], token.number[1])
    IN  Peeked(peek(lexer))

\* The match of parse_primary_expr on the token just read.
PrimaryOf(token, lexer) ==
    LET Curly(g) ==
            IF ~g.ok THEN g
            ELSE Ok(RepetitionExpr(token.loc, g.val, 0,
                                   MAX_UNSPECIFIED_UPPER_REPETITION_BOUND), g.lx)
        Bracket(g) ==
            IF ~g.ok THEN g ELSE Ok(RepetitionExpr(token.loc, g.val, 0, 1), g.lx)
    IN  IF token.kind = "ParenOpen" THEN Grouped(lexer, "ParenClose")
        ELSE IF token.kind = "CurlyOpen" THEN Curly(Grouped(lexer, "CurlyClose"))
        ELSE IF token.kind = "BracketOpen" THEN Bracket(Grouped(lexer, "BracketClose"))
        ELSE IF token.kind = "Symbol" THEN Ok(SymbolExpr(token.loc, token.text), lexer)
        ELSE IF token.kind = "ValueRange"
        THEN IF Len(token.text) # 2
             THEN Err(DiagErr(token.loc, "Value range is expected to have 2 bounds"), lexer)
             ELSE Ok(RangeExpr(token.loc, token.text[1], token.text[2]), lexer)
        ELSE IF token.kind = "String" THEN StringPrimary(token, lexer)
        ELSE IF token.kind = "Asterisk" THEN AfterAsterisk(lexer, token.loc, 0)
        ELSE IF token.kind = "Number" THEN NumberPrimary(token, lexer)
        ELSE Err(DiagErr(token.loc, "Expected start of an expression"), lexer)

parse_primary_expr(lexer) ==
    LET Read(t) == IF ~t.ok THEN t ELSE PrimaryOf(t.val, t.lx)
    IN  Read(next(lexer))

\* while let Ok(token) = lexer.peek() { .. } of parse_concat_expr, and the Ok after it.
ConcatLoop(lexer, elements) ==
    LET Child(child) ==
            IF ~child.ok THEN child
            ELSE Call("ConcatLoop", child.lx, Append(elements, child.val))
        Peeked(p) ==
            IF ~p.ok
            THEN Ok(ConcatExpr(get_loc(elements[1]), elements), p.lx)
            ELSE IF ~is_primary_start(p.val.kind)
            THEN Ok(ConcatExpr(get_loc(elements[1]), elements), p.lx)
            ELSE Child(Call("parse_primary_expr", p.lx, <<>>))
    IN  Peeked(peek(lexer))

parse_concat_exprWrapping(lexer) ==
    LET Peeked(primary, p) ==
            IF ~p.ok THEN p
            ELSE IF ~is_primary_start(p.val.kind)
            THEN Ok(ConcatExpr(get_loc(primary.val), <<primary.val>>), p.lx)
            ELSE Call("ConcatLoop", p.lx, <<primary.val>>)
        First(primary) ==
            IF ~primary.ok THEN primary ELSE Peeked(primary, peek(primary.lx))
    IN  First(Call("parse_primary_expr", lexer, <<>>))

parse_concat_expr(lexer) ==
    LET Peeked(primary, p) ==
            IF ~p.ok THEN p
            ELSE IF ~is_primary_start(p.val.kind)
            THEN Ok(primary.val, p.lx)
            ELSE Call("ConcatLoop", p.lx, <<primary.val>>)
        First(primary) ==
            IF ~primary.ok THEN primary ELSE Peeked(primary, peek(primary.lx))
    IN  First(Call("parse_primary_expr", lexer, <<>>))

\* while let Ok(token) = lexer.peek() { .. } of parse_alt_expr, and the Ok after it.
AltLoop(lexer, variants) ==
    LET Child(child) ==
            IF ~child.ok THEN child
            ELSE Call("AltLoop", child.lx, Append(variants, child.val))
        Peeked(p) ==
            IF ~p.ok
            THEN Ok(AlternationExpr(get_loc(variants[1]), variants), p.lx)
            ELSE IF p.val.kind # "Alternation"
            THEN Ok(AlternationExpr(get_loc(variants[1]), variants), p.lx)
            ELSE Child(Call("parse_concat_expr", TakePeeked(p.lx), <<>>))
    IN  Peeked(peek(lexer))

parse_alt_expr(lexer) ==
    LET Peeked(concat, p) ==
            IF ~p.ok THEN p
            ELSE IF p.val.kind # "Alternation"
            THEN Ok(concat.val, p.lx)
            ELSE Call("AltLoop", p.lx, <<concat.val>>)
        First(concat) ==
            IF ~concat.ok THEN concat ELSE Peeked(concat, peek(concat.lx))
    IN  First(Call("parse_concat_expr", lexer, <<>>))

Call(fn, lexer, elements) ==
    IF fn = "parse_primary_expr" THEN parse_primary_expr(lexer)
    ELSE IF fn = "ConcatLoop" THEN ConcatLoop(lexer, elements)
    ELSE IF fn = "parse_concat_expr" THEN parse_concat_expr(lexer)
    ELSE IF fn = "AltLoop" THEN AltLoop(lexer, elements)
    ELSE parse_alt_expr(lexer)

parse_expr(lexer) == Call("parse_expr", lexer, <<>>)

(* impl Display for Expr *)

HexDigitsLower == <<48, 49, 50, 51, 52, 53, 54, 55, 56, 57, 97, 98, 99, 100, 101, 102>>
HexDigitsUpper == <<48, 49, 50, 51, 52, 53, 54, 55, 56, 57, 65, 66, 67, 68, 69, 70>>

\* The digits of n in the given base, most significant first ("0" for 0).
RECURSIVE Digits(_, _, _)
Digits(n, base, digits) ==
    IF n < base THEN <<digits[n + 1]>>
    ELSE Digits(n \div base, base, digits) \o <<digits[(n % base) + 1]>>

\* {} of a u32
FmtDecimal(n) == Digits(n, 10, HexDigitsLower)

\* {:02x} and {:02X}: at least two digits, zero padded.
FmtHex02(n, digits) ==
    LET d == Digits(n, 16, digits)
    IN  IF Len(d) < 2 THEN <<digits[1]>> \o d ELSE d

FmtStringChar(ch) ==
    IF ch = 10 THEN <<92, 110>>
    ELSE IF ch = 13 THEN <<92, 114>>
    ELSE IF ch = 92 THEN <<92, 92>>
    ELSE IF ch = 34 THEN <<92, 34>>
    ELSE IF is_control(ch) THEN <<92, 120>> \o FmtHex02(ch, HexDigitsLower)
    ELSE <<ch>>

RECURSIVE FmtStringChars(_)
FmtStringChars(text) ==
    IF text = <<>> THEN <<>> ELSE FmtStringChar(Head(text)) \o FmtStringChars(Tail(text))

RECURSIVE fmt(_), FmtVariants(_, _), FmtElements(_, _)

\* The loop of the Alternation arm from variant i on.
FmtVariants(variants, i) ==
    IF i > Len(variants) THEN <<>>
    ELSE (IF i > 1 THEN <<32, 124, 32>> ELSE <<>>)
         \o fmt(variants[i]) \o FmtVariants(variants, i + 1)

\* The loop of the Concat arm from element i on.
FmtElements(elements, i) ==
    IF i > Len(elements) THEN <<>>
    ELSE (IF i > 1 THEN <<32>> ELSE <<>>)
         \o (IF elements[i].kind = "Alternation"
             THEN <<40, 32>> \o fmt(elements[i]) \o <<32, 41>>
             ELSE fmt(elements[i]))
         \o FmtElements(elements, i + 1)

fmt(expr) ==
    IF expr.kind = "Symbol" THEN expr.name
    ELSE IF expr.kind = "String"
    THEN <<34>> \o FmtStringChars(expr.text) \o <<34>>
    ELSE IF expr.kind = "Alternation" THEN FmtVariants(expr.variants, 1)
    ELSE IF expr.kind = "Concat" THEN FmtElements(expr.elements, 1)
    ELSE IF expr.kind = "Repetition"
    THEN IF expr.lower = 0 /\ expr.upper = 1
         THEN <<91, 32>> \o fmt(expr.body) \o <<32, 93>>
         ELSE IF expr.lower = expr.upper
         THEN FmtDecimal(expr.lower) \o <<40, 32>> \o fmt(expr.body)
              \o <<32, 41>>
         ELSE FmtDecimal(expr.lower) \o <<42>> \o FmtDecimal(expr.upper)
              \o <<40, 32>> \o fmt(expr.body) \o <<32, 41>>
    ELSE <<37, 120>> \o FmtHex02(expr.lower, HexDigitsUpper) \o <<45>>
         \o FmtHex02(expr.upper, HexDigitsUpper)

----------------------------------------------------------------------------
(* main.rs: the table-building pass, lines 211 to 326 *)

Rule(head, body) == [head |-> head, body |-> body]

\* HashMap::insert
Insert(g, key, value) == [k \in DOMAIN g \cup {key} |-> IF k = key THEN value ELSE g[k]]

\* What one iteration of the loop over the lines did: the table after it, whether it
\* set parsing_error, the diagnostics it printed, and the head symbol and parsed body
\* it got as far as reading.
LineResult(g, what, failed, diags, symbol, body) ==
    [grammar |-> g, what |-> what, failed |-> failed, diags |-> diags,
     symbol |-> symbol, body |-> body]

\* parser::expect_token(&mut lexer, TokenKind::Eol) after the match, lines 318 to 321.
ExpectEol(g, what, lexer, symbol, body) ==
    LET Checked(e) ==
            IF ~e.ok
            THEN LineResult(g, what, TRUE, <<e.err>>, Some(symbol), Some(body))
            ELSE LineResult(g, what, FALSE, <<>>, Some(symbol), Some(body))
    IN  Checked(expect_token(lexer, "Eol"))

\* Lines 258 to 267: parse the body and insert the rule; then the end-of-line check.
DefineRule(g, head, lexer) ==
    LET Parsed(body) ==
            IF ~body.ok
            THEN LineResult(g, "body_error", TRUE, <<body.err>>, Some(head.text), None)
            ELSE ExpectEol(Insert(g, head.text, Rule(head, body.val)), "defined",
                           body.lx, head.text, body.val)
    IN  Parsed(parse_expr(lexer))

\* The TokenKind::Definition arm, lines 248 to 268.
DefinitionArmOverwrite(g, head, lexer) == DefineRule(g, head, lexer)

DefinitionArm(g, head, lexer) ==
    IF head.text \in DOMAIN g
    THEN LineResult(g, "redefinition", TRUE,
                    << DiagErr(head.loc, "redefinition of the rule"),
                       DiagErr(g[head.text].head.loc,
                               "NOTE: the first definition is located here") >>,
                    Some(head.text), None)
    ELSE DefineRule(g, head, lexer)

\* Lines 289 to 301: the existing rule with the new body folded in.
MergedRulePrepend(rule, body) ==
    IF rule.body.kind = "Alternation"
    THEN [rule EXCEPT !.body.variants = <<body>> \o @]
    ELSE [rule EXCEPT !.body = AlternationExpr(get_loc(rule.body), <<body, rule.body>>)]

MergedRule(rule, body) ==
    IF rule.body.kind = "Alternation"
    THEN [rule EXCEPT !.body.variants = Append(@, body)]
    ELSE [rule EXCEPT !.body = AlternationExpr(get_loc(rule.body), <<rule.body, body>>)]

\* The TokenKind::IncAlternative arm, lines 270 to 303, and the end-of-line check.
IncAlternativeArm(g, head, lexer) ==
    LET Parsed(body) ==
            IF ~body.ok
            THEN LineResult(g, "body_error", TRUE, <<body.err>>, Some(head.text), None)
            ELSE ExpectEol(Insert(g, head.text, MergedRule(g[head.text], body.val)),
                           "merged", body.lx, head.text, body.val)
    IN  IF head.text \notin DOMAIN g
        THEN LineResult(g, "no_rule", TRUE,
                        <<DiagErr(head.loc,
                                  "can't apply incremental alternative to a non-existing rule")>>,
                        Some(head.text), None)
        ELSE Parsed(parse_expr(lexer))

\* The body of the loop over the lines, lines 215 to 321, for one line.
ProcessLine(g, content, r) ==
    LET DefRead(head, def) ==
            IF ~def.ok
            THEN LineResult(g, "def_error", TRUE, <<def.err>>, Some(head.val.text), None)
            ELSE IF def.val.kind = "Definition" THEN DefinitionArm(g, head.val, def.lx)
            ELSE IF def.val.kind = "IncAlternative"
            THEN IncAlternativeArm(g, head.val, def.lx)
            ELSE LineResult(g, "bad_def_token", TRUE,
                            <<DiagErr(def.val.loc,
                                      "Expected definition symbol or incremental alternative")>>,
                            Some(head.val.text), None)
        HeadRead(head) ==
            IF ~head.ok
            THEN LineResult(g, "head_error", TRUE, <<head.err>>, None, None)
            ELSE DefRead(head, next(head.lx))
        Peeked(first) ==
            IF first.ok /\ first.val.kind = "Eol"
            THEN LineResult(g, "blank", FALSE, <<>>, None, None)
            ELSE HeadRead(expect_token(first.lx, "Symbol"))
    IN  Peeked(peek(LexerNew(content, r)))

-----
(* Input lines *)

Sym(c) == Chars(<<c>>)
Str(c) == Chars(<<"\"", c, "\"">>)
Sp == Chars(<<" ">>)
Def == Chars(<<" ", ":", ":", "=", " ">>)
Inc == Chars(<<" ", "=", "/", " ">>)
Bar == Chars(<<" ", "|", " ">>)

LineAx == Sym("A") \o Def \o Str("x")                         \* A ::= "x"
LineAy == Sym("A") \o Def \o Str("y")                         \* A ::= "y"
LineAincY == Sym("A") \o Inc \o Str("y")                      \* A =/ "y"
LineAincZ == Sym("A") \o Inc \o Str("z")                      \* A =/ "z"
LineAxy == Sym("A") \o Def \o Str("x") \o Bar \o Str("y")     \* A ::= "x" | "y"
LineBA == Sym("B") \o Def \o Sym("A")                         \* B ::= A
LineBincYZ == Sym("B") \o Inc \o Str("y") \o Bar \o Str("z")  \* B =/ "y" | "z"
LineBeqAb == Sym("B") \o Chars(<<" ", "=", " ", "A", " ", "b">>)      \* B = A b
LineAngleBad == Chars(<<"<", "a", " ", "b">>) \o Def \o Str("x")      \* <a b ::= "x"
LineAngleOpen == Chars(<<"<", "a">>) \o Def \o Str("x")               \* <a ::= "x"
LineAngle == Chars(<<"<", "a", ">">>) \o Def \o Str("x")              \* <a> ::= "x"
LineTwoThenBad == Sym("A") \o Def \o Chars(<<"a", " ", "b", " ", "\"", "x">>)  \* A ::= a b "x
LineOneThenBad == Sym("A") \o Def \o Chars(<<"a", " ", "\"", "x">>)   \* A ::= a "x
LineTrailing == Sym("A") \o Def \o Str("x") \o Chars(<<" ", ")">>)    \* A ::= "x" )
LineIncTrailing == Sym("A") \o Inc \o Str("y") \o Chars(<<" ", ")">>) \* A =/ "y" )
LineComment == Chars(<<" ", ";", " ", "c">>)                          \*  ; c
LineNoDef == Sym("A") \o Sp \o Str("x")                       \* A "x"
LineInvalid == Chars(<<"$">>)                                 \* $

Lines ==
    { LineAx, LineAy, LineAincY, LineAincZ, LineAxy, LineBA, LineBincYZ, LineBeqAb,
      LineAngleBad, LineAngleOpen, LineAngle, LineTwoThenBad, LineOneThenBad,
      LineTrailing, LineIncTrailing, LineComment, LineNoDef, LineInvalid }

\* The longest file read.
MaxLines == 3

----------------------------------------------------------------------------
(* The table-building pass as a state machine *)

NoOutcome == [what |-> "none", failed |-> FALSE, diags |-> <<>>, symbol |-> None, body |-> None]

\* The bodies folded into each rule by lines that reported no error, in order: the
\* body of the Definition (the variants, when it is an Alternation) and then one body
\* per incremental alternative; empty once a line that reported an error touched the rule.
MergedAfter(m, res) ==
    IF res.what = "defined"
    THEN Insert(m, res.symbol[1],
                IF res.failed THEN <<>>
                ELSE IF res.body[1].kind = "Alternation" THEN res.body[1].variants
                ELSE <<res.body[1]>>)
    ELSE IF res.what = "merged"
    THEN Insert(m, res.symbol[1],
                IF res.failed \/ m[res.symbol[1]] = <<>> THEN <<>>
                ELSE Append(m[res.symbol[1]], res.body[1]))
    ELSE m

Idle == [entry |-> <<>>, verify |-> FALSE, unused |-> FALSE, dump |-> FALSE, count |-> 0]

LexIdle ==
    /\ lx = LexerNew(<<>>, 0)
    /\ lexOp = "none"
    /\ lexRes = None

RtIdle ==
    /\ rtStage = "none"
    /\ rtInput = <<>>
    /\ rtFirst = None
    /\ rtText = <<>>
    /\ rtSecond = None

BackEndIdle ==
    /\ args = Idle
    /\ stderr = <<>>
    /\ stdout = <<>>
    /\ visited = {}
    /\ agenda = <<>>
    /\ gen = <<>>
    /\ genRet = None
    /\ genResult = None
    /\ generated = 0

Init ==
    /\ pc = "lines"
    /\ grammar = <<>>
    /\ parsing_error = FALSE
    /\ row = 0
    /\ line = <<>>
    /\ outcome = NoOutcome
    /\ merged = <<>>
    /\ exit = "run"
    /\ BackEndIdle
    /\ LexIdle
    /\ RtIdle

\* One iteration of `for (row, line) in content.lines().enumerate()`.
ReadLine ==
    /\ pc = "lines"
    /\ row < MaxLines
    /\ \E content \in Lines :
        \E res \in {ProcessLine(grammar, content, row)} :
            /\ grammar' = res.grammar
            /\ parsing_error' = (parsing_error \/ res.failed)
            /\ line' = content
            /\ outcome' = [what |-> res.what, failed |-> res.failed, diags |-> res.diags,
                           symbol |-> res.symbol, body |-> res.body]
            /\ merged' = MergedAfter(merged, res)
    /\ row' = row + 1
    /\ UNCHANGED <<pc, exit, backVars, lexVars, rtVars>>

\* The end of the file: `if parsing_error { process::exit(1) }`, lines 324 to 326.
EndOfFile ==
    /\ pc = "lines"
    /\ pc' = IF parsing_error THEN "exited" ELSE "parsed"
    /\ exit' = IF parsing_error THEN "fail" ELSE "run"
    /\ UNCHANGED <<frontVars, backVars, lexVars, rtVars>>

Next == ReadLine \/ EndOfFile

Spec == Init /\ [][Next]_vars

----------------------------------------------------------------------------
(* The table-building pass: properties *)

\* Scanning the line token by token from the lexer state l (chop_token after
\* chop_token) meets a lexical error before the end of the line.
RECURSIVE ScanFails(_)
ScanFails(l) ==
    LET Scanned(r) ==
            IF ~r.ok THEN TRUE
            ELSE IF r.val.kind = "Eol" THEN FALSE
            ELSE ScanFails(r.lx)
    IN  Scanned(chop_token(l))

\* C1: when a token scan fails on a line, the failure flag is set once the line has
\* been processed (and stays set to the end of the pass, as nothing clears it).
\* Stated here for the lexical failures of the claim.
C1_ScanErrorSetsFlag ==
    (row > 0 /\ ScanFails(LexerNew(line, 0))) => parsing_error

\* The line starts with a Symbol token naming a rule of g, followed by a Definition
\* token.
IsRedefinition(content, g) ==
    LET DefTok(d) == d.ok /\ d.val.kind = "Definition"
        HeadTok(h) == /\ h.ok
                      /\ h.val.kind = "Symbol"
                      /\ h.val.text \in DOMAIN g
                      /\ DefTok(chop_token(h.lx))
    IN  HeadTok(chop_token(LexerNew(content, 0)))

\* C2: a Definition line naming a symbol that already has a rule sets the failure
\* flag and leaves the whole table, that rule included, as it was.
C2_RedefinitionRejected ==
    [][(pc = "lines" /\ row' = row + 1 /\ IsRedefinition(line', grammar))
        => (parsing_error' /\ grammar' = grammar)]_vars

\* A ::= "x" was followed by A ::= "y": the flag is set and A still has the body "x".
C2_Witness ==
    /\ line = LineAy
    /\ outcome.what = "redefinition"
    /\ parsing_error
    /\ grammar[Sym("A")].body.kind = "String"
    /\ grammar[Sym("A")].body.text = Sym("x")

\* C3: a rule built by a Definition and then k >= 1 incremental alternatives, all of
\* them lines that reported no error, has as body one Alternation whose variants are
\* the Definition's body (or its variants, when it was an Alternation) followed by the
\* k added bodies, in source order.
C3_MergeInOrder ==
    \A s \in DOMAIN grammar :
        /\ Len(merged[s]) = 1 => grammar[s].body = merged[s][1]
        /\ Len(merged[s]) >= 2 =>
            /\ grammar[s].body.kind = "Alternation"
            /\ grammar[s].body.variants = merged[s]

\* A ::= "x", A =/ "y", A =/ "z": exactly the three variants "x", "y", "z".
C3_Witness ==
    /\ Sym("A") \in DOMAIN grammar
    /\ ~parsing_error
    /\ Len(merged[Sym("A")]) = 3
    /\ grammar[Sym("A")].body.kind = "Alternation"
    /\ Len(grammar[Sym("A")].body.variants) = 3
    /\ \A i \in 1..3 : grammar[Sym("A")].body.variants[i].kind = "String"
    /\ [i \in 1..3 |-> grammar[Sym("A")].body.variants[i].text]
         = <<Sym("x"), Sym("y"), Sym("z")>>

----------------------------------------------------------------------------
(* The lexer driven call by call: any sequence of peek and next on one line *)

SrcHexEscape == Chars(<<"\"", "a", "\\", "x", "4", "1", "b", "\"">>)    \* "a\x41b"
SrcAposInDouble == Chars(<<"\"", "i", "t", "\\", "'", "s", "\"">>)      \* "it\'s"
SrcAposInSingle == Chars(<<"'", "i", "t", "\\", "'", "s", "'">>)        \* 'it\'s'
SrcQuoteInDouble == Chars(<<"\"", "a", "\\", "\"", "b", "\"">>)         \* "a\"b"
SrcEscapes == Chars(<<"'", "\\", "n", "\\", "0", "\\", "\\", "'">>)     \* '\n\0\\'
SrcBadHex == Chars(<<"\"", "\\", "x", "4", "g", "\"", " ", "b">>)       \* "\x4g" b
SrcNumbers == Chars(<<"1", "2", "*", "3", " ", "%", "x", "4", "1", "-", "5", "A">>) \* 12*3 %x41-5A

LexInputs ==
    Lines \cup { SrcHexEscape, SrcAposInDouble, SrcAposInSingle, SrcQuoteInDouble,
                 SrcEscapes, SrcBadHex, SrcNumbers }

\* What a call hands back to its caller: the token or the diagnostic.
Returned(r) == IF r.ok THEN [ok |-> TRUE, val |-> r.val] ELSE [ok |-> FALSE, err |-> r.err]

LexInit ==
    /\ pc = "lexing"
    /\ \E content \in LexInputs : lx = LexerNew(content, 0)
    /\ lexOp = "none"
    /\ lexRes = None
    /\ grammar = <<>>
    /\ parsing_error = FALSE
    /\ row = 0
    /\ line = <<>>
    /\ outcome = NoOutcome
    /\ merged = <<>>
    /\ exit = "run"
    /\ BackEndIdle
    /\ RtIdle

\* A call of Lexer::peek.
LexPeek ==
    /\ pc = "lexing"
    /\ \E r \in {peek(lx)} :
        /\ lx' = r.lx
        /\ lexRes' = Some(Returned(r))
    /\ lexOp' = "peek"
    /\ UNCHANGED <<mainVars, rtVars>>

\* A call of Lexer::next.
LexNext ==
    /\ pc = "lexing"
    /\ \E r \in {next(lx)} :
        /\ lx' = r.lx
        /\ lexRes' = Some(Returned(r))
    /\ lexOp' = "next"
    /\ UNCHANGED <<mainVars, rtVars>>

LexStep == LexPeek \/ LexNext

LexSpec == LexInit /\ [][LexStep]_vars

\* C4: a next right after a peek returns what the peek returned, and a peek right
\* after a peek returns what the first returned and leaves the scan column where it
\* was, whatever calls came before and also when the first peek returned an error.
C4_PeekIsStable ==
    [][(lexOp = "peek" /\ lexOp' \in {"peek", "next"})
        => /\ lexRes' = lexRes
           /\ lexOp' = "peek" => lx'.col = lx.col]_vars

\* The results of lexing a line are one String token with the given text, found at
\* column 0, and after it only the end of the line.
LexesToOneString(text) ==
    lexOp # "none" =>
        /\ lexRes[1].ok
        /\ lexRes[1].val.kind \in {"String", "Eol"}
        /\ lexRes[1].val.kind = "String" =>
            (lexRes[1].val.text = text /\ lexRes[1].val.loc.col = 0)
        /\ lexRes[1].val.kind = "Eol" => lx.col = Len(lx.content)

\* C5 as stated: "a\x41b" lexes to one String token aAb, and the double-quoted
\* "it\'s" to one String token it's.
C5_EscapeDecoding ==
    /\ lx.content = SrcHexEscape => LexesToOneString(Chars(<<"a", "A", "b">>))
    /\ lx.content = SrcAposInDouble => LexesToOneString(Chars(<<"i", "t", "'", "s">>))

\* C5 amended: "a\x41b" lexes to one String token aAb and the single-quoted 'it\'s'
\* to one String token it's; lexing the double-quoted "it\'s" returns the error of an
\* unknown escape sequence at the apostrophe and never a String token.
C5_EscapeDecodingOfDelimiter ==
    /\ lx.content = SrcHexEscape => LexesToOneString(Chars(<<"a", "A", "b">>))
    /\ lx.content = SrcAposInSingle => LexesToOneString(Chars(<<"i", "t", "'", "s">>))
    /\ (lx.content = SrcAposInDouble /\ lexOp # "none") =>
        /\ lexRes[1].ok => lexRes[1].val.kind = "Eol"
        /\ (lx.peek_buf = None /\ lx.col = 4) =>
            /\ ~lexRes[1].ok
            /\ lexRes[1].err = DiagErr(Loc(0, 4), "Unknown escape sequence")

\* The single-quoted 'it\'s' has been lexed to the String token it's.
C5_Witness ==
    /\ lx.content = SrcAposInSingle
    /\ lexOp = "next"
    /\ lexRes[1].ok
    /\ lexRes[1].val.kind = "String"
    /\ lexRes[1].val.text = Chars(<<"i", "t", "'", "s">>)

----------------------------------------------------------------------------
(* Parse, render, parse again *)

\* The deepest nesting of the source texts parsed.
MaxNest == 2

RtOperands == { Sym("a"), Sym("b"), Sym("c") }

\* The source texts one notation deeper than those of S.
RtForms(S) ==
    S \cup { Chars(<<"(">>) \o x \o Chars(<<")">>) : x \in S }
      \cup { Chars(<<"[">>) \o x \o Chars(<<"]">>) : x \in S }
      \cup { Chars(<<"{">>) \o x \o Chars(<<"}">>) : x \in S }
      \cup { Chars(<<"*">>) \o x : x \in S }
      \cup { Chars(<<"2">>) \o x : x \in S }
      \cup { Chars(<<"1", "*", "2">>) \o x : x \in S }
      \cup { x \o Bar \o t : x \in S, t \in RtOperands }
      \cup { x \o Sp \o t : x \in S, t \in RtOperands }
      \cup { Chars(<<"(">>) \o x \o Chars(<<")">>) \o Bar \o t : x \in S, t \in RtOperands }
      \cup { Chars(<<"(">>) \o x \o Chars(<<")">>) \o Sp \o t : x \in S, t \in RtOperands }

RECURSIVE RtTexts(_)
RtTexts(n) ==
    IF n = 0
    THEN RtOperands \cup { Str("x"),
                           Chars(<<"%", "x", "4", "1", "-", "5", "A">>),       \* %x41-5A
                           Chars(<<"%", "x", "0", "A">>),                      \* %x0A
                           Chars(<<"'", "a", "'", ".", ".", ".", "'", "c", "'">>) } \* 'a'...'c'
    ELSE RtForms(RtTexts(n - 1))

RtInit ==
    /\ pc = "roundtrip"
    /\ rtStage = "input"
    /\ rtInput \in RtTexts(MaxNest)
    /\ rtFirst = None
    /\ rtText = <<>>
    /\ rtSecond = None
    /\ grammar = <<>>
    /\ parsing_error = FALSE
    /\ row = 0
    /\ line = <<>>
    /\ outcome = NoOutcome
    /\ merged = <<>>
    /\ exit = "run"
    /\ BackEndIdle
    /\ LexIdle

\* What parse_expr hands back to its caller: the tree or the diagnostic.
RtResult(r) == IF r.ok THEN [ok |-> TRUE, val |-> r.val] ELSE [ok |-> FALSE, err |-> r.err]

\* parse_expr on the source text.
RtParse ==
    /\ rtStage = "input"
    /\ rtFirst' = Some(RtResult(parse_expr(LexerNew(rtInput, 0))))
    /\ rtStage' = "parsed"
    /\ UNCHANGED <<mainVars, lexVars, rtInput, rtText, rtSecond>>

\* The Display form of the tree parsed.
RtRender ==
    /\ rtStage = "parsed"
    /\ rtFirst[1].ok
    /\ rtText' = fmt(rtFirst[1].val)
    /\ rtStage' = "rendered"
    /\ UNCHANGED <<mainVars, lexVars, rtInput, rtFirst, rtSecond>>

\* parse_expr on the rendered text.
RtReparse ==
    /\ rtStage = "rendered"
    /\ rtSecond' = Some(RtResult(parse_expr(LexerNew(rtText, 0))))
    /\ rtStage' = "reparsed"
    /\ UNCHANGED <<mainVars, lexVars, rtInput, rtFirst, rtText>>

RtStep == RtParse \/ RtRender \/ RtReparse

RtSpec == RtInit /\ [][RtStep]_vars

\* A tree without its locations.
RECURSIVE Shape(_)
Shape(e) ==
    IF e.kind = "Symbol" THEN <<"Symbol", e.name>>
    ELSE IF e.kind = "String" THEN <<"String", e.text>>
    ELSE IF e.kind = "Alternation"
    THEN <<"Alternation", [i \in 1..Len(e.variants) |-> Shape(e.variants[i])]>>
    ELSE IF e.kind = "Concat"
    THEN <<"Concat", [i \in 1..Len(e.elements) |-> Shape(e.elements[i])]>>
    ELSE IF e.kind = "Repetition"
    THEN <<"Repetition", e.lower, e.upper, Shape(e.body)>>
    ELSE <<"Range", e.lower, e.upper>>

\* C6: the Display form of every tree parse_expr returns parses again, to a tree equal
\* to the first up to locations; so for the trees of (a | b) | c and (a b) c.
C6_RoundTrip ==
    rtStage = "reparsed" =>
        /\ rtSecond[1].ok
        /\ Shape(rtSecond[1].val) = Shape(rtFirst[1].val)

----------------------------------------------------------------------------
(* main.rs: the validators, lines 111 to 198 *)

\* A diagnostic whose message names a symbol.
NamedErr(l, m, name) == [loc |-> l, message |-> m, name |-> name]

\* The children a traversal descends into, in order.
Children(expr) ==
    IF expr.kind = "Alternation" THEN expr.variants
    ELSE IF expr.kind = "Concat" THEN expr.elements
    ELSE IF expr.kind = "Repetition" THEN <<expr.body>>
    ELSE <<>>

RECURSIVE verify_all_symbols_defined_in_expr(_, _)

\* The loops `for variant in variants` and `for element in elements` stopping at the
\* first child that fails.
RECURSIVE VerifyEachFailFast(_, _)
VerifyEachFailFast(g, exprs) ==
    IF exprs = <<>> THEN [ok |-> TRUE, errs |-> <<>>]
    ELSE LET Rest(first) ==
                 IF ~first.ok THEN first ELSE VerifyEachFailFast(g, Tail(exprs))
         IN  Rest(verify_all_symbols_defined_in_expr(g, Head(exprs)))

\* The loops `for variant in variants` and `for element in elements`: every child is
\* verified, ok is the conjunction; errs are the diagnostics printed, in order.
RECURSIVE VerifyEach(_, _)
VerifyEach(g, exprs) ==
    IF exprs = <<>> THEN [ok |-> TRUE, errs |-> <<>>]
    ELSE LET Both(first, rest) ==
                 [ok |-> first.ok /\ rest.ok, errs |-> first.errs \o rest.errs]
         IN  Both(verify_all_symbols_defined_in_expr(g, Head(exprs)),
                  VerifyEach(g, Tail(exprs)))

verify_all_symbols_defined_in_expr(g, expr) ==
    IF expr.kind = "Symbol"
    THEN IF expr.name \notin DOMAIN g
         THEN [ok |-> FALSE,
               errs |-> <<NamedErr(expr.loc, "Symbol is not defined", expr.name)>>]
         ELSE [ok |-> TRUE, errs |-> <<>>]
    ELSE VerifyEach(g, Children(expr))

\* The iteration orders a HashMap may have: every arrangement of its keys.
Orders(S) ==
    { o \in [1..Cardinality(S) -> S] : \A i, j \in 1..Cardinality(S) : o[i] = o[j] => i = j }

\* `for rule in grammar.values()` taken in the order given.
verify_all_symbols_defined(g, order) ==
    VerifyEach(g, [i \in 1..Len(order) |-> g[order[i]].body])

\* walk_symbols_in_expr not descending into the rule of the symbol it marks.
WalkExprShallow(g, expr, vis) ==
    IF expr.kind = "Symbol"
    THEN IF expr.name \in vis
         THEN [visited |-> vis, calls |-> <<>>, err |-> None]
         ELSE IF expr.name \notin DOMAIN g
         THEN [visited |-> vis \cup {expr.name}, calls |-> <<>>,
               err |-> Some(NamedErr(expr.loc, "Symbol is not defined", expr.name))]
         ELSE [visited |-> vis \cup {expr.name}, calls |-> <<>>, err |-> None]
    ELSE [visited |-> vis, calls |-> Children(expr), err |-> None]

\* walk_symbols_in_expr descending into a rule whether or not it was visited.
WalkExprRevisiting(g, expr, vis) ==
    IF expr.kind = "Symbol"
    THEN IF expr.name \notin DOMAIN g
         THEN [visited |-> vis \cup {expr.name}, calls |-> <<>>,
               err |-> Some(NamedErr(expr.loc, "Symbol is not defined", expr.name))]
         ELSE [visited |-> vis \cup {expr.name}, calls |-> <<g[expr.name].body>>,
               err |-> None]
    ELSE [visited |-> vis, calls |-> Children(expr), err |-> None]

\* walk_symbols_in_expr passing over a symbol without a rule.
WalkExprLenient(g, expr, vis) ==
    IF expr.kind = "Symbol"
    THEN IF expr.name \in vis \/ expr.name \notin DOMAIN g
         THEN [visited |-> vis \cup {expr.name}, calls |-> <<>>, err |-> None]
         ELSE [visited |-> vis \cup {expr.name}, calls |-> <<g[expr.name].body>>,
               err |-> None]
    ELSE [visited |-> vis, calls |-> Children(expr), err |-> None]

\* One call of walk_symbols_in_expr up to its recursive calls: the visited map after
\* it, the expressions it calls itself on, in order, and the error it returns, if any.
WalkExpr(g, expr, vis) ==
    IF expr.kind = "Symbol"
    THEN IF expr.name \in vis
         THEN [visited |-> vis, calls |-> <<>>, err |-> None]
         ELSE IF expr.name \notin DOMAIN g
         THEN [visited |-> vis \cup {expr.name}, calls |-> <<>>,
               err |-> Some(NamedErr(expr.loc, "Symbol is not defined", expr.name))]
         ELSE [visited |-> vis \cup {expr.name}, calls |-> <<g[expr.name].body>>,
               err |-> None]
    ELSE [visited |-> vis, calls |-> Children(expr), err |-> None]

\* The loop reporting the unused rules, `for (name, rule) in &grammar` in the order
\* given.
UnusedReports(g, order, vis) ==
    SelectSeq([i \in 1..Len(order) |->
                  NamedErr(g[order[i]].head.loc, "is unused", order[i])],
              LAMBDA e : e.name \notin vis)

----------------------------------------------------------------------------
(* main.rs: generate_random_message, lines 54 to 109 *)

\* One call of generate_random_message: the expression it is called on, how many
\* children it has finished (i), the repetition count drawn (n, -1 before the draw)
\* and its local `message`.
Frame(expr) == [expr |-> expr, i |-> 0, n |-> -1, message |-> <<>>]

\* What a call does next.
Return(text) == [t |-> "return", val |-> text]
Recurse(f, expr) == [t |-> "call", frame |-> f, expr |-> expr]
Fail(e) == [t |-> "err", err |-> e]
Panic == [t |-> "panic"]

\* The surrogate code points: u32 values that are no char.
Surrogates == 55296..57343

\* The loop `for _ in 0..n` of the Repetition arm from iteration f.i on.
RepetitionLoop(f) ==
    IF f.i >= f.n THEN {Return(f.message)} ELSE {Recurse(f, f.expr.body)}

\* The Repetition arm drawing from the bounds in whichever order they come.
RepetitionArmSwapped(f) ==
    IF f.n # -1 THEN RepetitionLoop(f)
    ELSE IF f.expr.lower > f.expr.upper
    THEN UNION { RepetitionLoop([f EXCEPT !.n = n]) : n \in f.expr.upper..f.expr.lower }
    ELSE UNION { RepetitionLoop([f EXCEPT !.n = n]) : n \in f.expr.lower..f.expr.upper }

\* The Repetition arm, lines 81 to 95.
RepetitionArm(f) ==
    IF f.n # -1 THEN RepetitionLoop(f)
    ELSE IF f.expr.lower > f.expr.upper
    THEN {Fail(DiagErr(f.expr.loc, "Upper bound of the repetition is lower than the lower one."))}
    ELSE UNION { RepetitionLoop([f EXCEPT !.n = n]) : n \in f.expr.lower..f.expr.upper }

\* The Range arm, lines 97 to 107: char::from_u32(..).unwrap() panics on a surrogate.
RangeArm(f) ==
    IF f.expr.lower > f.expr.upper
    THEN {Fail(DiagErr(f.expr.loc, "Upper bound of the range is lower than the lower one."))}
    ELSE { IF random_char \in Surrogates THEN Panic ELSE Return(<<random_char>>) :
              random_char \in f.expr.lower..f.expr.upper }

\* Evaluate taking a symbol without a rule for the empty string.
EvaluateLenient(g, f) ==
    IF f.expr.kind = "String" THEN {Return(f.expr.text)}
    ELSE IF f.expr.kind = "Symbol"
    THEN IF f.expr.name \notin DOMAIN g
         THEN {Return(<<>>)}
         ELSE {Recurse(f, g[f.expr.name].body)}
    ELSE IF f.expr.kind = "Concat"
    THEN IF f.i >= Len(f.expr.elements) THEN {Return(f.message)}
         ELSE {Recurse(f, f.expr.elements[f.i + 1])}
    ELSE IF f.expr.kind = "Alternation"
    THEN { Recurse(f, f.expr.variants[i]) : i \in 1..Len(f.expr.variants) }
    ELSE IF f.expr.kind = "Repetition" THEN RepetitionArm(f)
    ELSE RangeArm(f)

\* What the call f can do from where it stands, one outcome per random draw.
Evaluate(g, f) ==
    IF f.expr.kind = "String" THEN {Return(f.expr.text)}
    ELSE IF f.expr.kind = "Symbol"
    THEN IF f.expr.name \notin DOMAIN g
         THEN {Fail(NamedErr(f.expr.loc, "Symbol is not defined", f.expr.name))}
         ELSE {Recurse(f, g[f.expr.name].body)}
    ELSE IF f.expr.kind = "Concat"
    THEN IF f.i >= Len(f.expr.elements) THEN {Return(f.message)}
         ELSE {Recurse(f, f.expr.elements[f.i + 1])}
    ELSE IF f.expr.kind = "Alternation"
    THEN { Recurse(f, f.expr.variants[i]) : i \in 1..Len(f.expr.variants) }
    ELSE IF f.expr.kind = "Repetition" THEN RepetitionArm(f)
    ELSE RangeArm(f)

\* Resume pushing the returned string in front of `message`.
ResumePrepended(f, text) ==
    IF f.expr.kind \in {"Symbol", "Alternation"} THEN Return(text)
    ELSE [t |-> "resume", frame |-> [f EXCEPT !.message = text \o @, !.i = @ + 1]]

\* What the call f does with the string its recursive call returned: Symbol and
\* Alternation return it, Concat and Repetition push it onto `message` and loop.
Resume(f, text) ==
    IF f.expr.kind \in {"Symbol", "Alternation"} THEN Return(text)
    ELSE [t |-> "resume", frame |-> [f EXCEPT !.message = @ \o text, !.i = @ + 1]]

----------------------------------------------------------------------------
(* Grammar files for the part of main after the table-building pass *)

LineAB == Sym("A") \o Def \o Sym("B")                                  \* A ::= B
LineBx == Sym("B") \o Def \o Str("x")                                  \* B ::= "x"
LineBC == Sym("B") \o Def \o Sym("C")                                  \* B ::= C
LineCx == Sym("C") \o Def \o Str("x")                                  \* C ::= "x"
LineCy == Sym("C") \o Def \o Str("y")                                  \* C ::= "y"
LineDy == Sym("D") \o Def \o Str("y")                                  \* D ::= "y"
LineInverted ==                                                        \* A ::= 5*2("a")
    Sym("A") \o Def \o Chars(<<"5", "*", "2", "(", "\"", "a", "\"", ")">>)
LineNestedInverted ==                                  \* A ::= "p" ( "x" | 5*2("a") )
    Sym("A") \o Def \o Str("p") \o Chars(<<" ", "(", " ">>) \o Str("x") \o Bar
        \o Chars(<<"5", "*", "2", "(", "\"", "a", "\"", ")", " ", ")">>)
LineRangeAC ==                                                         \* A ::= 'a'...'c'
    Sym("A") \o Def \o Chars(<<"'", "a", "'", ".", ".", ".", "'", "c", "'">>)
LineRangeCA ==                                                         \* A ::= 'c'...'a'
    Sym("A") \o Def \o Chars(<<"'", "c", "'", ".", ".", ".", "'", "a", "'">>)
LineRangeSurrogates ==                         \* A ::= "X"..."Y", X = U+D7FF, Y = U+E000
    Sym("A") \o Def \o <<34, 55295, 34, 46, 46, 46, 34, 57344, 34>>
LineRangeInConcat ==                                               \* B ::= "p" %x41-43
    Sym("B") \o Def \o Str("p") \o Chars(<<" ", "%", "x", "4", "1", "-", "4", "3">>)
LineTwoUndefined ==                                            \* A ::= B | 2(C [B]) "x"
    Sym("A") \o Def \o Sym("B") \o Bar
        \o Chars(<<"2", "(", "C", " ", "[", "B", "]", ")", " ", "\"", "x", "\"">>)
LineDE == Sym("D") \o Def \o Sym("E")                                  \* D ::= E
LineACycle == Sym("A") \o Def \o Sym("B") \o Bar \o Str("x")           \* A ::= B | "x"
LineBCycle == Sym("B") \o Def \o Sym("A") \o Sp \o Str("y")            \* B ::= A "y"
LineAxB == Sym("A") \o Def \o Str("x") \o Sp \o Sym("B")               \* A ::= "x" B
LineAxA == Sym("A") \o Def \o Str("x") \o Sp \o Sym("A")               \* A ::= "x" A
LineBStar == Sym("B") \o Def \o Chars(<<"*", "2", "\"", "y", "\"">>)   \* B ::= *2"y"

Files ==
    { <<LineAB, LineBx, LineCy>>,
      <<LineAB>>,
      <<LineAB, LineBC, LineCx, LineDy>>,
      <<LineInverted>>,
      <<LineNestedInverted>>,
      <<LineRangeAC, LineRangeInConcat>>,
      <<LineRangeCA>>,
      <<LineRangeSurrogates>>,
      <<LineTwoUndefined, LineDE>>,
      <<LineACycle, LineBCycle, LineCy>>,
      <<LineAxB, LineBStar>>,
      <<LineAxB>>,
      <<LineAxA, LineCy>>,
      <<LineAB, LineBA>>,
      <<LineAx, LineAincY, LineAincZ>> }

\* The values of --entry tried.
Entries == { Sym("A"), Sym("B"), Sym("C"), Sym("D"), Sym("!") }

\* The largest --count tried.
MaxCount == 2

\* The deepest nesting of generate_random_message calls followed.
MaxDepth == 6

\* The loop over the lines of a file, from line r on (lines 214 to 322).
RECURSIVE BuildFrom(_, _, _)
BuildFrom(st, file, r) ==
    IF r >= Len(file) THEN st
    ELSE LET After(res) ==
                 [grammar |-> res.grammar,
                  parsing_error |-> st.parsing_error \/ res.failed,
                  line |-> file[r + 1],
                  outcome |-> [what |-> res.what, failed |-> res.failed,
                               diags |-> res.diags, symbol |-> res.symbol,
                               body |-> res.body],
                  merged |-> MergedAfter(st.merged, res)]
         IN  BuildFrom(After(ProcessLine(st.grammar, file[r + 1], r)), file, r + 1)

Build(file) ==
    BuildFrom([grammar |-> <<>>, parsing_error |-> FALSE, line |-> <<>>,
               outcome |-> NoOutcome, merged |-> <<>>], file, 0)

----------------------------------------------------------------------------
(* main after the table-building pass, lines 324 to 395, as a state machine *)

CheckInit ==
    /\ pc = "parsed"
    /\ exit = "run"
    /\ \E file \in Files :
        \E built \in {Build(file)} :
            /\ ~built.parsing_error
            /\ grammar = built.grammar
            /\ parsing_error = built.parsing_error
            /\ row = Len(file)
            /\ line = built.line
            /\ outcome = built.outcome
            /\ merged = built.merged
    /\ args \in [entry : Entries, verify : BOOLEAN, unused : BOOLEAN, dump : BOOLEAN,
                 count : 0..MaxCount]
    /\ stderr = <<>>
    /\ stdout = <<>>
    /\ visited = {}
    /\ agenda = <<>>
    /\ gen = <<>>
    /\ genRet = None
    /\ genResult = None
    /\ generated = 0
    /\ LexIdle
    /\ RtIdle

\* process::exit(1)
ExitFail == pc' = "exited" /\ exit' = "fail"

\* return from main
ExitOk == pc' = "exited" /\ exit' = "ok"

\* `if args.verify && !verify_all_symbols_defined(&grammar) { process::exit(1) }`
Verify ==
    /\ pc = "parsed"
    /\ IF args.verify
       THEN \E order \in Orders(DOMAIN grammar) :
               \E v \in {verify_all_symbols_defined(grammar, order)} :
                   /\ stderr' = stderr \o v.errs
                   /\ IF v.ok THEN pc' = "verified" /\ exit' = exit ELSE ExitFail
       ELSE pc' = "verified" /\ UNCHANGED <<stderr, exit>>
    /\ UNCHANGED <<frontVars, args, stdout, visited, agenda, gen, genRet, genResult,
                   generated, lexVars, rtVars>>

\* String's Ord: lexicographic by code point.
RECURSIVE StrLess(_, _)
StrLess(a, b) ==
    IF b = <<>> THEN FALSE
    ELSE IF a = <<>> THEN TRUE
    ELSE IF Head(a) # Head(b) THEN Head(a) < Head(b)
    ELSE StrLess(Tail(a), Tail(b))

\* names.sort()
SortedNames(S) ==
    CHOOSE o \in Orders(S) : \A i, j \in 1..Cardinality(S) : i < j => StrLess(o[i], o[j])

\* "{}: {}" of rule.head.loc and the rule: the location and `head ::= body`.
DumpLine(rule) ==
    [loc |-> rule.head.loc, text |-> rule.head.text \o <<32, 58, 58, 61, 32>> \o fmt(rule.body)]

\* `if args.entry == "!"`: the names, or with --dump the rules, in sorted order.
ListSymbols ==
    /\ pc = "verified"
    /\ args.entry = <<33>>
    /\ \E names \in {SortedNames(DOMAIN grammar)} :
        stdout' = IF args.dump
                  THEN [i \in 1..Len(names) |-> DumpLine(grammar[names[i]])]
                  ELSE names
    /\ ExitOk
    /\ UNCHANGED <<frontVars, args, stderr, visited, agenda, gen, genRet, genResult,
                   generated, lexVars, rtVars>>

\* `let rule = match grammar.get(&args.entry)`
LookupEntry ==
    /\ pc = "verified"
    /\ args.entry # <<33>>
    /\ IF args.entry \in DOMAIN grammar
       THEN pc' = "entry" /\ UNCHANGED <<stderr, exit>>
       ELSE /\ stderr' = Append(stderr, [message |-> "Symbol is not defined. Pass -entry '!'",
                                         name |-> args.entry])
            /\ ExitFail
    /\ UNCHANGED <<frontVars, args, stdout, visited, agenda, gen, genRet, genResult,
                   generated, lexVars, rtVars>>

\* `if args.unused`: the visited map with the entry in it and the first call of
\* walk_symbols_in_expr, on the entry rule's body.
StartWalk ==
    /\ pc = "entry"
    /\ IF args.unused
       THEN /\ visited' = {args.entry}
            /\ agenda' = <<grammar[args.entry].body>>
            /\ pc' = "walking"
       ELSE pc' = "checked" /\ UNCHANGED <<visited, agenda>>
    /\ UNCHANGED <<exit, frontVars, args, stderr, stdout, gen, genRet, genResult,
                   generated, lexVars, rtVars>>

\* The next call of walk_symbols_in_expr, depth first; an error returned by any call
\* is returned by every caller (`?`), printed by main, and the process exits.
WalkStep ==
    /\ pc = "walking"
    /\ agenda # <<>>
    /\ \E w \in {WalkExpr(grammar, Head(agenda), visited)} :
        /\ visited' = w.visited
        /\ IF w.err = None
           THEN /\ agenda' = w.calls \o Tail(agenda)
                /\ UNCHANGED <<pc, exit, stderr>>
           ELSE /\ agenda' = <<>>
                /\ stderr' = Append(stderr, w.err[1])
                /\ ExitFail
    /\ UNCHANGED <<frontVars, args, stdout, gen, genRet, genResult, generated,
                   lexVars, rtVars>>

\* The walk returned Ok: the rules not visited are reported, in the map's order.
WalkDone ==
    /\ pc = "walking"
    /\ agenda = <<>>
    /\ \E order \in Orders(DOMAIN grammar) :
        \E reports \in {UnusedReports(grammar, order, visited)} :
            /\ stderr' = stderr \o reports
            /\ IF reports = <<>> THEN pc' = "checked" /\ exit' = exit ELSE ExitFail
    /\ UNCHANGED <<frontVars, args, stdout, visited, agenda, gen, genRet, genResult,
                   generated, lexVars, rtVars>>

\* `if args.dump { println!(..); return; }`
Dump ==
    /\ pc = "checked"
    /\ args.dump
    /\ stdout' = Append(stdout, DumpLine(grammar[args.entry]))
    /\ ExitOk
    /\ UNCHANGED <<frontVars, args, stderr, visited, agenda, gen, genRet, genResult,
                   generated, lexVars, rtVars>>


\* One iteration of `for _ in 0..args.count` begins: generate_random_message is
\* called on the entry rule's body.
GenCall ==
    /\ pc = "checked"
    /\ ~args.dump
    /\ generated < args.count
    /\ gen' = <<Frame(grammar[args.entry].body)>>
    /\ genRet' = None
    /\ pc' = "generating"
    /\ UNCHANGED <<exit, frontVars, args, stderr, stdout, visited, agenda, genResult,
                   generated, lexVars, rtVars>>

\* The innermost call of generate_random_message.
Top == gen[Len(gen)]

TakeGuarded(o) ==
    IF o.t = "call" /\ \E k \in 1..Len(gen) : gen[k].expr = o.expr
    THEN /\ gen' = [gen EXCEPT ![Len(gen)] = o.frame]
         /\ genRet' = Some(<<>>)
         /\ UNCHANGED <<pc, exit, stderr, genResult>>
    ELSE IF o.t = "return"
    THEN /\ gen' = SubSeq(gen, 1, Len(gen) - 1)
         /\ genRet' = Some(o.val)
         /\ UNCHANGED <<pc, exit, stderr, genResult>>
    ELSE IF o.t = "resume"
    THEN /\ gen' = [gen EXCEPT ![Len(gen)] = o.frame]
         /\ genRet' = None
         /\ UNCHANGED <<pc, exit, stderr, genResult>>
    ELSE IF o.t = "call"
    THEN /\ Len(gen) < MaxDepth
         /\ gen' = Append([gen EXCEPT ![Len(gen)] = o.frame], Frame(o.expr))
         /\ genRet' = None
         /\ UNCHANGED <<pc, exit, stderr, genResult>>
    ELSE IF o.t = "err"
    THEN /\ gen' = <<>>
         /\ genRet' = None
         /\ genResult' = Some([ok |-> FALSE, err |-> o.err])
         /\ stderr' = Append(stderr, o.err)
         /\ ExitFail
    ELSE /\ gen' = <<>>
         /\ genRet' = None
         /\ pc' = "exited"
         /\ exit' = "panic"
         /\ UNCHANGED <<stderr, genResult>>

\* The effect of what the innermost call does. An Err is returned by every caller in
\* turn (`?`), so the outermost call returns it: main prints it and exits. A panic
\* unwinds the process. Calls nested deeper than MaxDepth are not followed.
Take(o) ==
    IF o.t = "return"
    THEN /\ gen' = SubSeq(gen, 1, Len(gen) - 1)
         /\ genRet' = Some(o.val)
         /\ UNCHANGED <<pc, exit, stderr, genResult>>
    ELSE IF o.t = "resume"
    THEN /\ gen' = [gen EXCEPT ![Len(gen)] = o.frame]
         /\ genRet' = None
         /\ UNCHANGED <<pc, exit, stderr, genResult>>
    ELSE IF o.t = "call"
    THEN /\ Len(gen) < MaxDepth
         /\ gen' = Append([gen EXCEPT ![Len(gen)] = o.frame], Frame(o.expr))
         /\ genRet' = None
         /\ UNCHANGED <<pc, exit, stderr, genResult>>
    ELSE IF o.t = "err"
    THEN /\ gen' = <<>>
         /\ genRet' = None
         /\ genResult' = Some([ok |-> FALSE, err |-> o.err])
         /\ stderr' = Append(stderr, o.err)
         /\ ExitFail
    ELSE /\ gen' = <<>>
         /\ genRet' = None
         /\ pc' = "exited"
         /\ exit' = "panic"
         /\ UNCHANGED <<stderr, genResult>>

\* The innermost call runs up to its next recursive call or its return.
GenStep ==
    /\ pc = "generating"
    /\ gen # <<>>
    /\ \E o \in (IF genRet # None THEN {Resume(Top, genRet[1])}
                 ELSE Evaluate(grammar, Top)) : Take(o)
    /\ UNCHANGED <<frontVars, args, stdout, visited, agenda, generated, lexVars, rtVars>>

\* The outermost call returned Ok(message): `println!("{}", message)`.
GenReturn ==
    /\ pc = "generating"
    /\ gen = <<>>
    /\ genRet # None
    /\ stdout' = Append(stdout, genRet[1])
    /\ genResult' = Some([ok |-> TRUE, val |-> genRet[1]])
    /\ genRet' = None
    /\ generated' = generated + 1
    /\ pc' = "checked"
    /\ UNCHANGED <<exit, frontVars, args, stderr, visited, agenda, gen, lexVars, rtVars>>

\* The loop has run args.count times: main returns.
GenDone ==
    /\ pc = "checked"
    /\ ~args.dump
    /\ generated >= args.count
    /\ ExitOk
    /\ UNCHANGED <<frontVars, backVars, lexVars, rtVars>>

CheckNext ==
    \/ Verify
    \/ ListSymbols
    \/ LookupEntry
    \/ StartWalk
    \/ WalkStep
    \/ WalkDone
    \/ Dump
    \/ GenCall
    \/ GenStep
    \/ GenReturn
    \/ GenDone

CheckSpec == CheckInit /\ [][CheckNext]_vars

----------------------------------------------------------------------------
(* main after the table-building pass: properties *)

\* C7: 5*2("a") parses to a Repetition with lower 5 and upper 2 (the rule of A is
\* built from it), and a call of generate_random_message that reaches a Repetition
\* whose lower bound exceeds the upper one makes the generation return the error
\* "Upper bound of the repetition is lower than the lower one." at the node's
\* location, with no message printed.
C7_InvertedBoundsFailAtGeneration ==
    [][/\ line = LineInverted =>
            /\ grammar[Sym("A")].body.kind = "Repetition"
            /\ grammar[Sym("A")].body.lower = 5
            /\ grammar[Sym("A")].body.upper = 2
            /\ grammar[Sym("A")].body.body.kind = "String"
            /\ grammar[Sym("A")].body.body.text = Sym("a")
       /\ (/\ pc = "generating"
           /\ gen # <<>>
           /\ genRet = None
           /\ Top.expr.kind = "Repetition"
           /\ Top.n = -1
           /\ Top.expr.lower > Top.expr.upper)
          => /\ pc' = "exited"
             /\ exit' = "fail"
             /\ stdout' = stdout
             /\ genResult' = Some([ok |-> FALSE,
                    err |-> DiagErr(Top.expr.loc,
                        "Upper bound of the repetition is lower than the lower one.")])]_vars

\* The file A ::= 5*2("a") was read, generation from A was asked for and it failed
\* with that error at column 6, where the repetition starts.
C7_Witness ==
    /\ line = LineInverted
    /\ pc = "exited"
    /\ exit = "fail"
    /\ stdout = <<>>
    /\ genResult = Some([ok |-> FALSE,
           err |-> DiagErr(Loc(0, 6),
               "Upper bound of the repetition is lower than the lower one.")])

\* The names of the Symbol nodes of an expression.
RECURSIVE Refs(_)
Refs(e) ==
    IF e.kind = "Symbol" THEN {e.name}
    ELSE UNION { Refs(Children(e)[i]) : i \in 1..Len(Children(e)) }

\* Every symbol referenced in a rule body has a rule.
AllDefined(g) == \A k \in DOMAIN g : Refs(g[k].body) \subseteq DOMAIN g

\* The names reachable from those of S by following Symbol references through the
\* table: the least set closed under that.
RECURSIVE Reach(_, _)
Reach(g, S) ==
    LET T == S \cup UNION { Refs(g[k].body) : k \in S \cap DOMAIN g }
    IN  IF T = S THEN S ELSE Reach(g, T)

\* C8: in a table where every referenced symbol is defined, with a defined entry E,
\* the walk returns no error and the names then reported unused, each once, are
\* exactly the keys that are neither E nor reachable from E's body.
C8_UnusedAreTheUnreachable ==
    [][(pc = "walking" /\ AllDefined(grammar))
        => IF agenda # <<>> THEN pc' = "walking"
           ELSE LET reports == SubSeq(stderr', Len(stderr) + 1, Len(stderr'))
                    unreachable == DOMAIN grammar \ Reach(grammar, {args.entry})
                IN  /\ { reports[i].name : i \in 1..Len(reports) } = unreachable
                    /\ Len(reports) = Cardinality(unreachable)
                    /\ \A i \in 1..Len(reports) : reports[i].message = "is unused"
                    /\ exit' = IF unreachable = {} THEN exit ELSE "fail"]_vars

\* A ::= B, B ::= "x", C ::= "y" with entry A: exactly C was reported.
C8_Witness ==
    /\ DOMAIN grammar = {Sym("A"), Sym("B"), Sym("C")}
    /\ grammar[Sym("A")].body.kind = "Symbol"
    /\ args.entry = Sym("A")
    /\ args.unused
    /\ ~args.verify
    /\ pc = "exited"
    /\ visited = {Sym("A"), Sym("B")}
    /\ stderr = <<NamedErr(Loc(2, 0), "is unused", Sym("C"))>>

\* The nodes of an expression.
RECURSIVE Nodes(_)
Nodes(e) == {e} \cup UNION { Nodes(Children(e)[i]) : i \in 1..Len(Children(e)) }

\* The Symbol nodes of the rule bodies that name a symbol without a rule.
UndefinedNodes(g) ==
    { n \in UNION { Nodes(g[k].body) : k \in DOMAIN g } :
        n.kind = "Symbol" /\ n.name \notin DOMAIN g }

\* C9: verify_all_symbols_defined returns false (main exits with failure) exactly
\* when some Symbol node of some rule body, at any depth, names a symbol without a
\* rule, and it reports every such node, each exactly once.
C9_VerifyReportsEveryUndefined ==
    [][(pc = "parsed" /\ args.verify)
        => LET undefined == UndefinedNodes(grammar)
           IN  /\ pc' = IF undefined = {} THEN "verified" ELSE "exited"
               /\ exit' = IF undefined = {} THEN "run" ELSE "fail"
               /\ { stderr'[i] : i \in 1..Len(stderr') }
                    = { NamedErr(n.loc, "Symbol is not defined", n.name) : n \in undefined }
               /\ Len(stderr') = Cardinality(undefined)]_vars

\* A ::= B with no rule for B: one error, naming B at the body of A.
C9_Witness ==
    /\ DOMAIN grammar = {Sym("A")}
    /\ args.verify
    /\ pc = "exited"
    /\ exit = "fail"
    /\ stderr = <<NamedErr(Loc(0, 6), "Symbol is not defined", Sym("B"))>>

\* C10: a call of generate_random_message on a Range with lower <= upper returns a
\* string of one character between the bounds; with lower > upper the generation
\* returns the error "Upper bound of the range is lower than the lower one.".
C10_RangeGeneration ==
    [][(pc = "generating" /\ gen # <<>> /\ genRet = None /\ Top.expr.kind = "Range")
        => IF Top.expr.lower <= Top.expr.upper
           THEN /\ pc' = "generating"
                /\ genRet' # None
                /\ Len(genRet'[1]) = 1
                /\ genRet'[1][1] \in Top.expr.lower..Top.expr.upper
           ELSE /\ pc' = "exited"
                /\ exit' = "fail"
                /\ genResult' = Some([ok |-> FALSE,
                       err |-> DiagErr(Top.expr.loc,
                           "Upper bound of the range is lower than the lower one.")])]_vars

----------------------------------------------------------------------------
(* Generation: what a successful call may return *)

\* The texts made of one text of A followed by one text of B.
Joined(A, B) == { a \o b : a \in A, b \in B }

\* The texts made of n texts of S in a row.
RECURSIVE Power(_, _)
Power(S, n) == IF n = 0 THEN {<<>>} ELSE Joined(Power(S, n - 1), S)

\* The expansions of an expression, following at most d Symbol references in a row
\* downwards: a String is its text, a Concat one expansion of each element in order,
\* an Alternation an expansion of one variant, a Repetition n expansions of the body
\* for some n between the bounds, a Symbol an expansion of its rule body, a Range one
\* character between the bounds.
RECURSIVE Expansions(_, _, _), ExpansionsOfFirst(_, _, _, _)
Expansions(g, e, d) ==
    IF e.kind = "String" THEN {e.text}
    ELSE IF e.kind = "Symbol"
    THEN IF d = 0 \/ e.name \notin DOMAIN g THEN {} ELSE Expansions(g, g[e.name].body, d - 1)
    ELSE IF e.kind = "Concat" THEN ExpansionsOfFirst(g, e.elements, Len(e.elements), d)
    ELSE IF e.kind = "Alternation"
    THEN UNION { Expansions(g, e.variants[i], d) : i \in 1..Len(e.variants) }
    ELSE IF e.kind = "Repetition"
    THEN UNION { Power(Expansions(g, e.body, d), n) : n \in e.lower..e.upper }
    ELSE { <<c>> : c \in e.lower..e.upper }

\* One expansion of each of the first k expressions, in order.
ExpansionsOfFirst(g, exprs, k, d) ==
    IF k = 0 THEN {<<>>}
    ELSE Joined(ExpansionsOfFirst(g, exprs, k - 1, d), Expansions(g, exprs[k], d))

\* The call at position k of the stack is where its expression's structure puts it.
FrameInOrder(k) ==
    LET f == gen[k]
        callee == IF k < Len(gen) THEN <<gen[k + 1].expr>> ELSE <<>>
    IN  IF f.expr.kind = "Concat"
        THEN /\ f.i <= Len(f.expr.elements)
             /\ f.message \in ExpansionsOfFirst(grammar, f.expr.elements, f.i, MaxDepth)
             /\ callee # <<>> => (f.i < Len(f.expr.elements)
                                   /\ callee[1] = f.expr.elements[f.i + 1])
        ELSE IF f.expr.kind = "Repetition"
        THEN /\ f.n = -1 \/ f.n \in f.expr.lower..f.expr.upper
             /\ f.i <= f.n \/ f.n = -1
             /\ f.message \in Power(Expansions(grammar, f.expr.body, MaxDepth), f.i)
             /\ callee # <<>> => (f.i < f.n /\ callee[1] = f.expr.body)
        ELSE IF f.expr.kind = "Alternation"
        THEN /\ f.i = 0 /\ f.message = <<>>
             /\ callee # <<>> =>
                    \E i \in 1..Len(f.expr.variants) : callee[1] = f.expr.variants[i]
        ELSE IF f.expr.kind = "Symbol"
        THEN /\ f.i = 0 /\ f.message = <<>>
             /\ callee # <<>> => callee[1] = grammar[f.expr.name].body
        ELSE callee = <<>>

\* C11: all through a generation every call holds the concatenation, in order, of one
\* expansion of each child it has finished (Concat: its first i elements; Repetition:
\* i copies of the body with i <= n and lower <= n <= upper), an Alternation has
\* called exactly one of its variants and nothing else, and what a call returns to
\* its caller, and what the generation prints, is an expansion of its expression.
C11_GenerationStructure ==
    /\ \A k \in 1..Len(gen) : FrameInOrder(k)
    /\ (pc = "generating" /\ genRet # None) =>
          genRet[1] \in Expansions(grammar,
                           IF gen = <<>> THEN grammar[args.entry].body
                           ELSE IF gen[Len(gen)].expr.kind = "Concat"
                           THEN gen[Len(gen)].expr.elements[gen[Len(gen)].i + 1]
                           ELSE IF gen[Len(gen)].expr.kind = "Repetition"
                           THEN gen[Len(gen)].expr.body
                           ELSE gen[Len(gen)].expr,
                           MaxDepth)
    /\ \A j \in 1..Len(stdout) :
          (pc \in {"checked", "generating"} \/ (pc = "exited" /\ generated > 0)) =>
              stdout[j] \in Expansions(grammar, grammar[args.entry].body, MaxDepth)

\* A ::= "x" B, B ::= *2"y": a generation from A printed xyy.
C11_Witness ==
    /\ pc = "checked"
    /\ generated = 1
    /\ args.entry = Sym("A")
    /\ grammar[Sym("A")].body.kind = "Concat"
    /\ stdout = <<Chars(<<"x", "y", "y">>)>>
    /\ genResult = Some([ok |-> TRUE, val |-> Chars(<<"x", "y", "y">>)])

\* C12: when the innermost call of a generation stands on a Symbol without a rule,
\* the generation returns the error "Symbol is not defined" with that node's location
\* and name, main exits with failure and no message, partial or whole, is printed for
\* that generation; so for A ::= B without a rule for B every generation from A.
C12_UndefinedSymbolFailsGeneration ==
    [][(/\ pc = "generating"
        /\ gen # <<>>
        /\ genRet = None
        /\ Top.expr.kind = "Symbol"
        /\ Top.expr.name \notin DOMAIN grammar)
       => /\ pc' = "exited"
          /\ exit' = "fail"
          /\ stdout' = stdout
          /\ gen' = <<>>
          /\ genRet' = None
          /\ genResult' = Some([ok |-> FALSE,
                 err |-> NamedErr(Top.expr.loc, "Symbol is not defined", Top.expr.name)])]_vars

\* A ::= "x" B without a rule for B: the generation from A, having generated x, failed
\* at B (column 10) and printed nothing.
C12_Witness ==
    /\ line = LineAxB
    /\ DOMAIN grammar = {Sym("A")}
    /\ args.entry = Sym("A")
    /\ pc = "exited"
    /\ exit = "fail"
    /\ stdout = <<>>
    /\ genResult = Some([ok |-> FALSE,
           err |-> NamedErr(Loc(0, 10), "Symbol is not defined", Sym("B"))])

\* main is one sequential process: a step that can be taken is taken.
CheckFairSpec == CheckSpec /\ WF_vars(CheckNext)

\* C13: the reachability walk ends, with success (the unused report follows) or with
\* an undefined-symbol error, on every table, recursive rules included: a call on a
\* Symbol already visited changes nothing and calls nothing, a call on a Symbol not
\* yet visited inserts exactly that name, and only then is its rule body walked.
C13_WalkTerminates ==
    /\ (pc = "walking" /\ agenda # <<>>) ~> (pc = "exited" \/ agenda = <<>>)
    /\ [][(pc = "walking" /\ agenda # <<>>)
           => LET e == Head(agenda)
              IN  /\ e.kind # "Symbol" => (visited' = visited /\ pc' = "walking")
                  /\ (e.kind = "Symbol" /\ e.name \in visited)
                        => (visited' = visited /\ agenda' = Tail(agenda) /\ pc' = "walking")
                  /\ (e.kind = "Symbol" /\ e.name \notin visited)
                        => /\ visited' = visited \cup {e.name}
                           /\ IF e.name \in DOMAIN grammar
                              THEN /\ agenda' = <<grammar[e.name].body>> \o Tail(agenda)
                                   /\ pc' = "walking"
                              ELSE /\ pc' = "exited"
                                   /\ exit' = "fail"
                                   /\ stderr' = Append(stderr,
                                        NamedErr(e.loc, "Symbol is not defined", e.name))]_vars

\* A ::= B, B ::= A with entry A: the walk ended having visited A and B.
C13_Witness ==
    /\ line = LineBA
    /\ DOMAIN grammar = {Sym("A"), Sym("B")}
    /\ grammar[Sym("A")].body.kind = "Symbol"
    /\ args.entry = Sym("A")
    /\ args.unused
    /\ pc = "checked"
    /\ visited = {Sym("A"), Sym("B")}
    /\ agenda = <<>>

\* C14: when the walk calls itself on a Symbol whose name has no rule, the walk
\* ends there: nothing is left to walk, the one diagnostic printed is the
\* undefined-symbol error (no rule is reported unused), nothing is generated, and the
\* process has exited with failure, after which it takes no step.
C14_WalkFailsFast ==
    [][/\ pc # "exited"
       /\ (/\ pc = "walking"
           /\ agenda # <<>>
           /\ Head(agenda).kind = "Symbol"
           /\ Head(agenda).name \notin DOMAIN grammar)
          => /\ pc' = "exited"
             /\ exit' = "fail"
             /\ agenda' = <<>>
             /\ visited' = visited \cup {Head(agenda).name}
             /\ stderr' = Append(stderr, NamedErr(Head(agenda).loc, "Symbol is not defined",
                                                  Head(agenda).name))
             /\ stdout' = stdout
             /\ stdout = <<>>
             /\ generated' = 0
             /\ gen' = <<>>]_vars

\* A ::= B | 2(C [B]) "x", D ::= E with entry A: the walk failed at the first B; D,
\* which the walk never reached, was not reported unused.
C14_Witness ==
    /\ line = LineDE
    /\ args.entry = Sym("A")
    /\ args.unused
    /\ ~args.verify
    /\ pc = "exited"
    /\ exit = "fail"
    /\ Sym("D") \in DOMAIN grammar
    /\ visited = {Sym("A"), Sym("B")}
    /\ stderr = <<NamedErr(Loc(0, 6), "Symbol is not defined", Sym("B"))>>
    /\ stdout = <<>>

----------------------------------------------------------------------------
(* The whole program: the line loop followed by the back end, together with
   parse_expr on expression texts and the back end on the grammar files. *)

ProgramInit == Init \/ RtInit \/ CheckInit

ProgramNext == Next \/ RtStep \/ CheckNext

ProgramSpec == ProgramInit /\ [][ProgramNext]_vars

\* Every Alternation node of the tree has at least two variants and every Concat
\* node at least two elements.
AtLeastTwoChildren(e) ==
    \A n \in Nodes(e) :
        /\ n.kind = "Alternation" => Len(n.variants) >= 2
        /\ n.kind = "Concat" => Len(n.elements) >= 2

\* C15: every Alternation and every Concat node of every tree parse_expr returns
\* has at least two children; after any sequence of definition and
\* incremental-alternative lines every Alternation (and Concat) node of every
\* table entry has at least two children; so every call of the generator that
\* stands on an Alternation draws its index from a range of at least two.
C15_AtLeastTwoChildren ==
    /\ \A r \in {rtFirst, rtSecond} :
        (r # None /\ r[1].ok) => AtLeastTwoChildren(r[1].val)
    /\ outcome.body # None => AtLeastTwoChildren(outcome.body[1])
    /\ \A k \in DOMAIN grammar : AtLeastTwoChildren(grammar[k].body)
    /\ \A k \in 1..Len(gen) :
        gen[k].expr.kind = "Alternation" => Len(gen[k].expr.variants) >= 2

\* `A ::= "x"`, `A =/ "y"`, `A =/ "z"`: the single-string body was promoted to an
\* Alternation and then extended, and a generator call stands on it.
C15_Witness ==
    /\ line = LineAincZ
    /\ \E k \in DOMAIN grammar :
        /\ grammar[k].body.kind = "Alternation"
        /\ Len(grammar[k].body.variants) = 3
        /\ merged[k] = grammar[k].body.variants
    /\ gen # <<>>
    /\ gen[Len(gen)].expr.kind = "Alternation"

----------------------------------------------------------------------------
(* The repetition notations *)

\* The numbers written as lower bounds and as upper bounds.
Lowers == {0, 3, 12}
Uppers == {2, 20}

\* Primaries: the text, the tree without locations, and the kind of the first token.
Primary(text, shape, first) == [text |-> text, shape |-> shape, first |-> first]

ShapeA == <<"Symbol", Sym("a")>>
ShapeB == <<"Symbol", Sym("b")>>

Primaries ==
    { Primary(Sym("a"), ShapeA, "Symbol"),
      Primary(Str("x"), <<"String", Chars(<<"x">>)>>, "String"),
      Primary(Chars(<<"(", "a", " ", "|", " ", "b", ")">>),
              <<"Alternation", <<ShapeA, ShapeB>>>>, "ParenOpen"),
      Primary(Chars(<<"(", "a", " ", "b", ")">>), <<"Concat", <<ShapeA, ShapeB>>>>,
              "ParenOpen"),
      Primary(Chars(<<"[", "a", "]">>), <<"Repetition", 0, 1, ShapeA>>, "BracketOpen"),
      Primary(Chars(<<"{", "a", "}">>), <<"Repetition", 0, 20, ShapeA>>, "CurlyOpen"),
      Primary(Chars(<<"2", "a">>), <<"Repetition", 2, 2, ShapeA>>, "Number"),
      Primary(Chars(<<"*", "a">>), <<"Repetition", 0, 20, ShapeA>>, "Asterisk") }

\* What follows the notation on the line: nothing, or one more primary.
Tails == { <<>>, Chars(<<" ", "b">>) }

\* What stands where the body should: the end of the line, `)`, ` | a`; and the
\* column of that token counted from the end of the prefix.
Missing == { [text |-> <<>>, at |-> 0],
             [text |-> Chars(<<")">>), at |-> 0],
             [text |-> Chars(<<" ", "|", " ", "a">>), at |-> 1] }

\* P after a number: two digit runs need a space between them.
AfterNumber(P) == IF P.first = "Number" THEN Sp \o P.text ELSE P.text

Star == Chars(<<"*">>)

Curly(P) == Chars(<<"{">>) \o P.text \o Chars(<<"}">>)            \* {e}
Bracket(P) == Chars(<<"[">>) \o P.text \o Chars(<<"]">>)          \* [e]
StarP(P) == Star \o P.text                                        \* *P
StarMP(M, P) == Star \o FmtDecimal(M) \o AfterNumber(P)               \* *M P
NP(N, P) == FmtDecimal(N) \o AfterNumber(P)                           \* N P
NStarP(N, P) == FmtDecimal(N) \o Star \o P.text                       \* N*P
NStarMP(N, M, P) == FmtDecimal(N) \o Star \o FmtDecimal(M) \o AfterNumber(P)   \* N*M P

Prefixes ==
    {Star} \cup { Star \o FmtDecimal(M) : M \in Uppers }
           \cup { FmtDecimal(N) : N \in Lowers }
           \cup { FmtDecimal(N) \o Star : N \in Lowers }
           \cup { FmtDecimal(N) \o Star \o FmtDecimal(M) : N \in Lowers, M \in Uppers }

NotationTexts ==
    { Curly(P) \o t : P \in Primaries, t \in Tails }
      \cup { Bracket(P) \o t : P \in Primaries, t \in Tails }
      \cup { StarP(P) \o t : P \in Primaries, t \in Tails }
      \cup { StarMP(M, P) \o t : M \in Uppers, P \in Primaries, t \in Tails }
      \cup { NP(N, P) \o t : N \in Lowers, P \in Primaries, t \in Tails }
      \cup { NStarP(N, P) \o t : N \in Lowers, P \in Primaries, t \in Tails }
      \cup { NStarMP(N, M, P) \o t : N \in Lowers, M \in Uppers, P \in Primaries,
                                     t \in Tails }
      \cup { x \o m.text : x \in Prefixes, m \in Missing }

NotationInit ==
    /\ pc = "notation"
    /\ rtStage = "input"
    /\ rtInput \in NotationTexts
    /\ rtFirst = None
    /\ rtText = <<>>
    /\ rtSecond = None
    /\ grammar = <<>>
    /\ parsing_error = FALSE
    /\ row = 0
    /\ line = <<>>
    /\ outcome = NoOutcome
    /\ merged = <<>>
    /\ exit = "run"
    /\ BackEndIdle
    /\ LexIdle

NotationSpec == NotationInit /\ [][RtParse]_vars

\* parse_expr on the notation followed by the tail returned the Repetition with the
\* bounds lower and upper and the body P, at column 0, alone or followed by b.
Gives(notation, lower, upper, P) ==
    \A t \in Tails :
        (rtInput = notation \o t /\ rtStage = "parsed") =>
            /\ rtFirst[1].ok
            /\ Shape(rtFirst[1].val) =
                 IF t = <<>> THEN <<"Repetition", lower, upper, P.shape>>
                 ELSE <<"Concat", <<<<"Repetition", lower, upper, P.shape>>, ShapeB>>>>
            /\ rtFirst[1].val.loc = Loc(0, 0)

\* parse_expr on a prefix without its body returned the error at the token found
\* in the body's place.
MissingPrimaryIsAnError ==
    \A x \in Prefixes, m \in Missing :
        (rtInput = x \o m.text /\ rtStage = "parsed") =>
            /\ ~rtFirst[1].ok
            /\ rtFirst[1].err = DiagErr(Loc(0, Len(x) + m.at),
                                        "Expected start of an expression")

\* C16 as stated: {e} gives (0, 20); [e] gives (0, 1); *P gives (0, 20); *M P gives
\* (0, M); N P gives (N, N); N*P gives (N, 20); N*M P gives (N, M), for every N, M
\* and every primary P, the body being P; a prefix without a primary is the error
\* "Expected start of an expression".
C16_RepetitionNotations ==
    /\ \A P \in Primaries :
        /\ Gives(Curly(P), 0, 20, P)
        /\ Gives(Bracket(P), 0, 1, P)
        /\ Gives(StarP(P), 0, 20, P)
        /\ \A M \in Uppers : Gives(StarMP(M, P), 0, M, P)
        /\ \A N \in Lowers :
            /\ Gives(NP(N, P), N, N, P)
            /\ Gives(NStarP(N, P), N, 20, P)
            /\ \A M \in Uppers : Gives(NStarMP(N, M, P), N, M, P)
    /\ MissingPrimaryIsAnError

\* C16 amended: the same, where in *P and N*P the primary P does not begin with a
\* number and in N P it does not begin with `*`: a number after `*` is always the
\* upper bound (*2a is *M P: (0, 2) of a) and a `*` after the number always belongs
\* to the prefix (3*a is N*P: (3, 20) of a).
C16_RepetitionNotationsGreedy ==
    /\ \A P \in Primaries :
        /\ Gives(Curly(P), 0, 20, P)
        /\ Gives(Bracket(P), 0, 1, P)
        /\ P.first # "Number" => Gives(StarP(P), 0, 20, P)
        /\ \A M \in Uppers : Gives(StarMP(M, P), 0, M, P)
        /\ \A N \in Lowers :
            /\ P.first # "Asterisk" => Gives(NP(N, P), N, N, P)
            /\ P.first # "Number" => Gives(NStarP(N, P), N, 20, P)
            /\ \A M \in Uppers : Gives(NStarMP(N, M, P), N, M, P)
    /\ MissingPrimaryIsAnError

\* `*2a b` was parsed: a Concat of the Repetition (0, 2) of a, and b.
C16_Witness ==
    /\ rtInput = Chars(<<"*", "2", "a", " ", "b">>)
    /\ rtStage = "parsed"
    /\ rtFirst[1].ok
    /\ Shape(rtFirst[1].val) = <<"Concat", <<<<"Repetition", 0, 2, ShapeA>>, ShapeB>>>>

----------------------------------------------------------------------------
(* Generation from a rule that only recurses *)

\* The bounds of every Repetition and Range node of the tree are in order.
BoundsInOrder(e) ==
    \A n \in Nodes(e) : n.kind \in {"Repetition", "Range"} => n.lower <= n.upper

\* No call of the generator on the entry can fail (every rule reachable from the
\* entry is defined, with its bounds in order), and the entry has no finite
\* expansion: every alternative of every rule on the way leads back into a rule.
OnlyRecurses(g, entry) ==
    /\ entry \in DOMAIN g
    /\ \A k \in Reach(g, {entry}) : k \in DOMAIN g /\ BoundsInOrder(g[k].body)
    /\ Expansions(g, g[entry].body, MaxDepth) = {}

\* C17: generation from an entry whose rule only recurses (A ::= "x" A) never
\* returns: no step of it prints a message or an error, ends the loop or exits,
\* whatever the draws; the calls nest ever deeper, to every depth followed.
C17_NoCycleGuard ==
    /\ [][(pc = "generating" /\ OnlyRecurses(grammar, args.entry))
           => /\ pc' = "generating"
              /\ exit' = "run"
              /\ gen' # <<>>
              /\ genResult' = None
              /\ generated' = 0
              /\ stdout' = stdout
              /\ stderr' = stderr]_vars
    /\ (pc = "generating" /\ OnlyRecurses(grammar, args.entry)) ~> (Len(gen) = MaxDepth)

\* A ::= "x" A with entry A: the calls are nested MaxDepth deep, three of them on
\* the body of A, and nothing was printed.
C17_Witness ==
    /\ line = LineCy
    /\ args.entry = Sym("A")
    /\ grammar[Sym("A")].body.kind = "Concat"
    /\ OnlyRecurses(grammar, args.entry)
    /\ pc = "generating"
    /\ Len(gen) = MaxDepth
    /\ Cardinality({ k \in 1..Len(gen) : gen[k].expr = grammar[Sym("A")].body }) >= 3
    /\ stdout = <<>>
    /\ stderr = <<>>

----------------------------------------------------------------------------
(* Lines that report an error *)

\* C18: a line that sets the failure flag (a lexical or parse error, a
\* redefinition, an incremental alternative for a symbol without a rule, a wrong
\* definition token, tokens left before the end of the line) leaves the table as
\* it was before the line.
C18_FailedLineLeavesTable ==
    [][(pc = "lines" /\ row' = row + 1 /\ outcome'.failed) => grammar' = grammar]_vars

====
